---------------------------- MODULE Spec2Model ----------------------------
(***************************************************************************)
(* alx-polly: polls, votes and the in-memory rate limiter.                 *)
(*                                                                         *)
(* The persistence store (tables polls and votes), the process-local       *)
(* rateLimitStore and the requests in flight are the state.  A request     *)
(* handler is split at its awaits on the store: between two awaits other   *)
(* requests may run.  rateLimit itself is synchronous and is one step.     *)
(***************************************************************************)
EXTENDS Integers, Sequences, FiniteSets, TLC

VARIABLES
    polls,          \* table polls: the set of rows [id, user_id, question, options, created_at]
    votes,          \* table votes: the rows [poll_id, user_id, option_index], in insertion order
    nextId,         \* the id the store gives the next poll it inserts
    rateLimitStore, \* rate-limit.ts: Map<string, RateLimitEntry>
    now,            \* Date.now()
    limit,          \* the (maxRequests, windowMs) a rate-limit harness calls with
    req,            \* the requests in flight and answered: slot -> record
    log,            \* history: the rateLimit calls of the harness so far, oldest first
    admitted        \* history: per user, the create requests the rate-limit stage let pass

vars == <<polls, votes, nextId, rateLimitStore, now, limit, req, log, admitted>>

(***************************************************************************)
(* Bounds of the model.                                                    *)
(***************************************************************************)
MaxNow == 5          \* the clock of the rate-limit harness stops here
MaxCalls == 5        \* rateLimit calls kept in the history
MaxLimit == 2        \* maxRequests is drawn from 1..MaxLimit
MaxWindow == 2       \* windowMs is drawn from 1..MaxWindow

Null == "null"

(***************************************************************************)
(* rate-limit.ts                                                           *)
(***************************************************************************)
Keys == {"k1", "k2"}

\* rateLimitStore.get(key): undefined when the key has no entry
HasEntry(store, key) == key \in DOMAIN store

\* rateLimitStore.set(key, entry)
StoreSet(store, key, entry) ==
    [k \in (DOMAIN store) \cup {key} |-> IF k = key THEN entry ELSE store[k]]

\* `!entry || now > entry.resetTime` with `>=` in place of `>`
WindowExpiredAtReset(store, key, t) ==
    \/ ~HasEntry(store, key)
    \/ t >= store[key].resetTime

\* `!entry || now > entry.resetTime`
WindowExpired(store, key, t) ==
    \/ ~HasEntry(store, key)
    \/ t > store[key].resetTime

\* `entry.count >= maxRequests` with `>` in place of `>=`
LimitReachedOffByOne(entry, maxRequests) == entry.count > maxRequests

\* `entry.count >= maxRequests`
LimitReached(entry, maxRequests) == entry.count >= maxRequests

\* the denied branch, but counting the denied call
DeniedCounting(store, key) ==
    [store    |-> StoreSet(store, key, [store[key] EXCEPT !.count = @ + 1]),
     allowed  |-> FALSE,
     remaining |-> 0,
     resetTime |-> store[key].resetTime]

\* the denied branch of rateLimit: nothing is written
Denied(store, key) ==
    [store    |-> store,
     allowed  |-> FALSE,
     remaining |-> 0,
     resetTime |-> store[key].resetTime]

\* rateLimit(identifier, maxRequests, windowMs) called when Date.now() = t:
\* the store it leaves and the object it returns
RateLimit(store, identifier, maxRequests, windowMs, t) ==
    LET key == identifier IN
    IF WindowExpired(store, key, t)
    THEN [store    |-> StoreSet(store, key, [count |-> 1, resetTime |-> t + windowMs]),
          allowed  |-> TRUE,
          remaining |-> maxRequests - 1,
          resetTime |-> t + windowMs]
    ELSE IF LimitReached(store[key], maxRequests)
    THEN Denied(store, key)
    ELSE LET entry == [store[key] EXCEPT !.count = @ + 1] IN
         [store    |-> StoreSet(store, key, entry),
          allowed  |-> TRUE,
          remaining |-> maxRequests - entry.count,
          resetTime |-> entry.resetTime]

EmptyStore == [k \in {} |-> Null]

Users == {"u1", "u2"}

NoneAdmitted == [u \in Users |-> 0]

(***************************************************************************)
(* SpecRate: rateLimit driven directly, one (maxRequests, windowMs) per    *)
(* run, any key, any timing.  The history keeps every call with the entry  *)
(* found before it and the object returned.                                *)
(***************************************************************************)
InitRate ==
    /\ polls = {}
    /\ votes = <<>>
    /\ rateLimitStore = EmptyStore
    /\ now = 0
    /\ limit \in [maxRequests : 1..MaxLimit, windowMs : 1..MaxWindow]
    /\ req = <<>>
    /\ log = <<>>
    /\ nextId = 1
    /\ admitted = NoneAdmitted

\* one call rateLimit(key, limit.maxRequests, limit.windowMs)
RateLimitCall(key) ==
    LET r == RateLimit(rateLimitStore, key, limit.maxRequests, limit.windowMs, now) IN
    /\ Len(log) < MaxCalls
    /\ rateLimitStore' = r.store
    /\ log' = Append(log, [key |-> key, t |-> now,
                           before |-> rateLimitStore,
                           after |-> r.store,
                           allowed |-> r.allowed,
                           remaining |-> r.remaining,
                           resetTime |-> r.resetTime])
    /\ UNCHANGED <<polls, votes, nextId, now, limit, req, admitted>>

\* a millisecond passes
Tick ==
    /\ now < MaxNow
    /\ now' = now + 1
    /\ UNCHANGED <<polls, votes, nextId, rateLimitStore, limit, req, log, admitted>>

NextRate ==
    \/ \E key \in Keys : RateLimitCall(key)
    \/ Tick

SpecRate == InitRate /\ [][NextRate]_vars

(***************************************************************************)
(* The rate limiter's contract, read off the history.                      *)
(***************************************************************************)
\* the calls made for one key, oldest first
CallsOf(key) == SelectSeq(log, LAMBDA e : e.key = key)

\* The contract of a fixed window, followed call by call.  reset and used
\* describe the window the contract expects to be open (used = 0: none).  A
\* call strictly before reset is allowed exactly while used < maxRequests; a
\* call strictly after reset, or with no window, is allowed and opens the
\* window [t, t + windowMs] with count 1.  The contract here is silent about
\* a call made exactly at reset: the history says which way it went.
RECURSIVE Conforms(_, _, _, _)
Conforms(calls, i, reset, used) ==
    IF i > Len(calls) THEN TRUE
    ELSE LET e == calls[i]
             fresh == /\ e.allowed
                      /\ e.resetTime = e.t + limit.windowMs
                      /\ e.after[e.key] = [count |-> 1, resetTime |-> e.t + limit.windowMs]
         IN IF used = 0 \/ e.t > reset
            THEN fresh /\ Conforms(calls, i + 1, e.t + limit.windowMs, 1)
            ELSE IF e.t < reset
            THEN /\ e.allowed <=> (used < limit.maxRequests)
                 /\ Conforms(calls, i + 1, reset, IF e.allowed THEN used + 1 ELSE used)
            ELSE IF e.allowed /\ e.resetTime = e.t + limit.windowMs
            THEN Conforms(calls, i + 1, e.t + limit.windowMs, 1)
            ELSE Conforms(calls, i + 1, reset, IF e.allowed THEN used + 1 ELSE used)

C7_ResetAtResetTime ==
    \A i \in DOMAIN log :
        LET e == log[i] IN
        (HasEntry(e.before, e.key) /\ e.t = e.before[e.key].resetTime)
            => (e.allowed /\ e.after[e.key].count = 1)

\* C8: a denied call returns allowed = false, remaining = 0 and the stored
\* resetTime and writes nothing; an allowed call inside an open window adds one
\* to that key's count only, keeps resetTime, and returns
\* remaining = maxRequests - count.
C8_DeniedAndIncrementFrame ==
    \A i \in DOMAIN log :
        LET e == log[i] IN
        /\ ~e.allowed =>
              /\ e.remaining = 0
              /\ HasEntry(e.before, e.key)
              /\ e.resetTime = e.before[e.key].resetTime
              /\ e.after = e.before
        /\ (e.allowed /\ HasEntry(e.before, e.key) /\ e.t < e.before[e.key].resetTime) =>
              /\ DOMAIN e.after = DOMAIN e.before
              /\ \A k \in DOMAIN e.before : k # e.key => e.after[k] = e.before[k]
              /\ e.after[e.key].count = e.before[e.key].count + 1
              /\ e.after[e.key].resetTime = e.before[e.key].resetTime
              /\ e.resetTime = e.before[e.key].resetTime
              /\ e.remaining = limit.maxRequests - e.after[e.key].count

\* C8 witness: with another key's entry in the store, one key had an allowed
\* call inside its open window and later a denied one.
C8_Witness ==
    \E i, j \in DOMAIN log :
        /\ i < j
        /\ log[i].key = log[j].key
        /\ log[i].allowed
        /\ HasEntry(log[i].before, log[i].key)
        /\ log[i].t < log[i].before[log[i].key].resetTime
        /\ ~log[j].allowed
        /\ \E k \in DOMAIN log[j].before : k # log[j].key

\* the number of allowed calls for key with from <= t <= from + windowMs
Burst(key, from) ==
    Cardinality({i \in DOMAIN log :
        /\ log[i].key = key
        /\ log[i].allowed
        /\ from <= log[i].t
        /\ log[i].t <= from + limit.windowMs})

\* the largest number of allowed calls any interval of length windowMs holds
BurstBounded(n) == \A key \in Keys : \A from \in 0..MaxNow : Burst(key, from) <= n

\* rateLimit called for one key at the times of sched, from an empty store:
\* the times of the allowed calls
RECURSIVE AllowedTimes(_, _, _)
AllowedTimes(store, sched, i) ==
    IF i > Len(sched) THEN <<>>
    ELSE LET r == RateLimit(store, "k1", limit.maxRequests, limit.windowMs, sched[i]) IN
         (IF r.allowed THEN <<sched[i]>> ELSE <<>>) \o AllowedTimes(r.store, sched, i + 1)

\* 2 * maxRequests calls at nondecreasing times
BurstSchedules ==
    {s \in [1..(2 * limit.maxRequests) -> 0..MaxNow] :
        \A i \in 1..(2 * limit.maxRequests - 1) : s[i] <= s[i + 1]}

\* some timing of 2 * maxRequests calls has them all allowed inside one
\* interval of length windowMs
BurstReachable ==
    \E s \in BurstSchedules :
        LET a == AllowedTimes(EmptyStore, s, 1) IN
        /\ Len(a) = 2 * limit.maxRequests
        /\ a[Len(a)] - a[1] <= limit.windowMs

\* C9: under any sequence and timing of calls for one key, the allowed calls
\* inside any time interval of length windowMs never exceed 2 * maxRequests,
\* and 2 * maxRequests is reachable.
C9_BoundaryBurst == BurstBounded(2 * limit.maxRequests) /\ BurstReachable


(***************************************************************************)
(* Text.  A string is lead blanks, then the character ch repeated n times, *)
(* then trail blanks; n = 0 is a string of blanks only (ch = "").          *)
(***************************************************************************)
Str(lead, ch, n, trail) == [lead |-> lead, ch |-> ch, n |-> n, trail |-> trail]

\* s.length
StrLen(s) == s.lead + s.n + s.trail

\* String(s).trim()
Trim(s) == IF s.n = 0 THEN Str(0, "", 0, 0) ELSE Str(0, s.ch, s.n, 0)

(***************************************************************************)
(* The identity provider and the persistence store.                        *)
(***************************************************************************)
\* poll ids: the store numbers the polls it inserts 1, 2, ... (0: no id)
PollIds == {1, 2}

\* supabase.auth.getUser(): the session's user, or null for an anonymous caller
Actors == Users \cup {Null}

\* .from('polls').select(...).eq('id', id).single(): the row, or null with an error
PollById(table, id) ==
    IF \E p \in table : p.id = id
    THEN CHOOSE p \in table : p.id = id
    ELSE Null

PollExists(table, id) == \E p \in table : p.id = id

\* the rows (by position) of votes with this poll_id and user_id
VoteRows(table, pollId, userId) ==
    {i \in DOMAIN table : table[i].poll_id = pollId /\ table[i].user_id = userId}

\* .from('votes').select('id').eq('poll_id', ..).eq('user_id', ..).single():
\* data is the row when exactly one row matches, and null (with an error) otherwise
ExistingVote(table, pollId, userId) == Cardinality(VoteRows(table, pollId, userId)) = 1

\* no unique index on votes
NoUniqueIndex(table, row) == FALSE

\* a unique index on votes(poll_id, user_id) that covers null user_ids too
UniqueViolationWithNulls(table, row) == VoteRows(table, row.poll_id, row.user_id) # {}

\* create unique index votes_poll_user_unique on votes(poll_id, user_id)
\* where user_id is not null: the insert of row is refused (SQLSTATE 23505)
UniqueViolation(table, row) ==
    /\ row.user_id # Null
    /\ VoteRows(table, row.poll_id, row.user_id) # {}

DuplicateKeyMessage == "duplicate key value violates unique constraint"

(***************************************************************************)
(* Requests.  A slot holds one request from its arrival to its answer:     *)
(*   op      the entry point called                                        *)
(*   pc      where the handler stands (an await on the store), or "done"   *)
(*   actor   the session's user (null: anonymous)                          *)
(*   email   the session user's email address                              *)
(*   role    the session user's role attribute                             *)
(*   ip      the client address the proxy headers give                     *)
(*   id      the poll id of the request                                    *)
(*   body    the form data or JSON body; once validated, the values to     *)
(*           write                                                         *)
(*   sent    the question and options as the client sent them              *)
(*   index   the parsed option index of a vote                             *)
(*   rows    the number of rows the request's store write matched          *)
(*   options the options getPollResults read                               *)
(*   counts  the counts getPollResults returned                            *)
(*   shown   the counts the poll detail view works with                    *)
(*   percent the percentages it displays                                   *)
(*   listed  the poll records the admin panel displays                     *)
(*   revalidated  the paths the handler called revalidatePath with         *)
(*   stage   the step at which the handler answered                        *)
(*   error   the answer's error (null: none), status its HTTP status       *)
(*           (0 for a server action, which has none)                       *)
(***************************************************************************)
NumSlots == 2
Slots == 1..NumSlots

Idle == [op |-> "idle", pc |-> "idle", actor |-> Null, email |-> Null, role |-> Null,
         ip |-> Null, id |-> 0, listed |-> {},
         body |-> Null, sent |-> Null, index |-> 0, rows |-> 0, options |-> <<>>,
         counts |-> <<>>,
         shown |-> <<>>, percent |-> <<>>, revalidated |-> {},
         stage |-> Null, error |-> Null, status |-> 0]

\* the cached views: the listing '/polls' and a poll's page `/polls/${id}`
ListPath == [path |-> "/polls", id |-> 0]
PollPath(id) == [path |-> "/polls/[id]", id |-> id]

\* the handler returns, after a revalidatePath('/polls') on every way out
AnswerRevalidating(r, error, status) ==
    [r EXCEPT !.pc = "done", !.stage = r.pc, !.error = error, !.status = status,
              !.revalidated = @ \cup {ListPath}]

\* the handler returns: stage keeps the step that answered
Answer(r, error, status) ==
    [r EXCEPT !.pc = "done", !.stage = r.pc, !.error = error, !.status = status]

\* revalidatePath(path) for each of the paths
Revalidate(r, paths) == [r EXCEPT !.revalidated = @ \cup paths]

\* the optionIndex a client sends: a number k (the JSON number k, or the form
\* text of its digits), text with no number in it, digits followed by other
\* characters ("1abc"), or no optionIndex at all
NotANumber == [t |-> "nan", v |-> 0]
Num(k) == [t |-> "num", v |-> k]
Prefixed(k) == [t |-> "prefixed", v |-> k]
Missing == [t |-> "missing", v |-> 0]
IndexInputs == {Num(-1), Num(0), Num(2), NotANumber}

\* the value is a number (typeof optionIndex === 'number', !Number.isNaN)
IsNumber(raw) == raw.t = "num"

\* voteOnPoll: typeof raw === 'string' ? Number.parseInt(raw, 10) : Number(raw)
\* parseInt reads the leading digits and drops what follows them; a missing
\* field is null, and Number(null) is 0
ParseIndex(raw) ==
    CASE raw.t = "num" -> raw
      [] raw.t = "prefixed" -> Num(raw.v)
      [] raw.t = "missing" -> Num(0)
      [] OTHER -> NotANumber

\* `!pollId || Number.isNaN(optionIndex) || optionIndex < 0` (voteOnPoll, on
\* the parsed value)
\* `!pollId || typeof optionIndex !== 'number' || optionIndex < 0` (route, on
\* the JSON value)
InvalidIndex(raw) == ~IsNumber(raw) \/ raw.v < 0

\* `optionIndex >= poll.options.length`
IndexOutOfRange(index, poll) == index >= Len(poll.options)

VoteLimit == 5
VoteWindowMs == 60000

\* the key `vote:${voteIp}`
VoteKey(ip) == <<"vote", ip>>

(***************************************************************************)
(* voteOnPoll (server action) and POST /polls/{id}/vote (route)            *)
(***************************************************************************)
\* voteOnPoll passing the store's message on as it is
VoteActionInsertErrorRaw(r) == Answer(r, DuplicateKeyMessage, 0)

\* voteOnPoll on an insert error with code 23505 (or "duplicate key" in the
\* message): the same error as the prior-vote check gives
VoteActionInsertError(r) == Answer(r, "You have already voted on this poll.", 0)

\* a voteOnPoll call arrives and runs to its poll fetch: the per-IP rate
\* limit, then the parse of optionIndex
VoteActionBegin(s, actor, ip, id, raw) ==
    LET r == [Idle EXCEPT !.op = "voteOnPoll", !.pc = "start", !.actor = actor,
                          !.ip = ip, !.id = id, !.body = raw]
        rate == RateLimit(rateLimitStore, VoteKey(ip), VoteLimit, VoteWindowMs, now)
    IN
    /\ req[s] = Idle
    /\ \A t \in Slots : t < s => req[t] # Idle
    /\ rateLimitStore' = rate.store
    /\ req' = [req EXCEPT ![s] =
          IF ~rate.allowed THEN Answer(r, "Too many requests", 0)
          ELSE IF InvalidIndex(ParseIndex(raw))
          THEN Answer(r, "Invalid poll ID or option index.", 0)
          ELSE [r EXCEPT !.pc = "fetch", !.index = ParseIndex(raw).v]]
    /\ UNCHANGED <<polls, votes, nextId, now, limit, log, admitted>>

\* a route request arrives and runs to its poll fetch: getUser, the body, the
\* type check
VoteRouteBegin(s, actor, id, raw) ==
    LET r == [Idle EXCEPT !.op = "POST vote", !.pc = "start", !.actor = actor,
                          !.id = id, !.body = raw]
    IN
    /\ req[s] = Idle
    /\ \A t \in Slots : t < s => req[t] # Idle
    /\ req' = [req EXCEPT ![s] =
          IF InvalidIndex(raw) THEN Answer(r, "Invalid poll ID or option index.", 400)
          ELSE [r EXCEPT !.pc = "fetch", !.index = raw.v]]
    /\ UNCHANGED <<polls, votes, nextId, rateLimitStore, now, limit, log, admitted>>

\* the poll fetch answers; an anonymous caller goes on to the insert, an
\* authenticated one to the prior-vote check
VoteFetch(s) ==
    LET r == req[s]
        poll == PollById(polls, r.id)
        route == r.op = "POST vote"
    IN
    /\ r.op \in {"voteOnPoll", "POST vote"} /\ r.pc = "fetch"
    /\ req' = [req EXCEPT ![s] =
          IF ~PollExists(polls, r.id)
          THEN Answer(r, "Poll not found.", IF route THEN 404 ELSE 0)
          ELSE IF IndexOutOfRange(r.index, poll)
          THEN Answer(r, "Invalid option selected.", IF route THEN 400 ELSE 0)
          ELSE [r EXCEPT !.pc = IF r.actor # Null THEN "check" ELSE "insert"]]
    /\ UNCHANGED <<polls, votes, nextId, rateLimitStore, now, limit, log, admitted>>

\* the prior-vote check answers
VoteCheck(s) ==
    LET r == req[s]
        route == r.op = "POST vote"
    IN
    /\ r.op \in {"voteOnPoll", "POST vote"} /\ r.pc = "check"
    /\ req' = [req EXCEPT ![s] =
          IF ExistingVote(votes, r.id, r.actor)
          THEN Answer(r, "You have already voted on this poll.", IF route THEN 409 ELSE 0)
          ELSE [r EXCEPT !.pc = "insert"]]
    /\ UNCHANGED <<polls, votes, nextId, rateLimitStore, now, limit, log, admitted>>

\* the insert answers: the row is stored, or the unique index refuses it.
\* voteOnPoll turns code 23505 into the already-voted error; the route passes
\* the store's message on with status 500.  On success voteOnPoll revalidates
\* the poll's page; the route revalidates nothing.
VoteInsert(s) ==
    LET r == req[s]
        route == r.op = "POST vote"
        row == [poll_id |-> r.id, user_id |-> r.actor, option_index |-> r.index]
    IN
    /\ r.op \in {"voteOnPoll", "POST vote"} /\ r.pc = "insert"
    /\ IF UniqueViolation(votes, row)
       THEN /\ votes' = votes
            /\ req' = [req EXCEPT ![s] =
                  IF route THEN Answer(r, DuplicateKeyMessage, 500)
                  ELSE VoteActionInsertError(r)]
       ELSE /\ votes' = Append(votes, row)
            /\ req' = [req EXCEPT ![s] =
                  Answer(Revalidate([r EXCEPT !.rows = 1], IF route THEN {} ELSE {PollPath(r.id)}),
                         Null, IF route THEN 200 ELSE 0)]
    /\ UNCHANGED <<polls, nextId, rateLimitStore, now, limit, log, admitted>>

\* .from('votes').select('option_index').eq('poll_id', pollId)
VotesOfPoll(table, pollId) == SelectSeq(table, LAMBDA row : row.poll_id = pollId)

\* the range check with the last option left out
CountedBelowLast(idx, counts) == idx >= 0 /\ idx < Len(counts) - 1

\* `typeof option_index === 'number' && option_index >= 0
\*  && option_index < counts.length` (every stored index is a number)
Counted(idx, counts) == idx >= 0 /\ idx < Len(counts)

\* for (const row of data) if (...) counts[row.option_index] += 1
RECURSIVE TallyRows(_, _, _)
TallyRows(counts, rows, i) ==
    IF i > Len(rows) THEN counts
    ELSE LET idx == rows[i].option_index IN
         TallyRows(IF Counted(idx, counts) THEN [counts EXCEPT ![idx + 1] = @ + 1] ELSE counts,
                   rows, i + 1)

\* new Array(options.length).fill(0), then the loop over the poll's vote rows
Tally(n, table, pollId) == TallyRows([i \in 1..n |-> 0], VotesOfPoll(table, pollId), 1)

\* getPollResults called with nothing running in between its two reads:
\* counts: [] (and an error) when the poll is missing
GetPollResults(pollTable, voteTable, pollId) ==
    IF ~PollExists(pollTable, pollId) THEN <<>>
    ELSE Tally(Len(PollById(pollTable, pollId).options), voteTable, pollId)

\* the sum of a sequence of counts
RECURSIVE Sum(_)
Sum(counts) == IF counts = <<>> THEN 0 ELSE counts[1] + Sum(Tail(counts))

(***************************************************************************)
(* SpecVote: vote submissions through both entry points, interleaved at    *)
(* their awaits, on a store that holds one poll with two options.          *)
(***************************************************************************)
VoteIps == {"ip1"}
Voters == {"u1", "u2", Null}

TwoOptions == <<Str(0, "a", 1, 0), Str(0, "b", 1, 0)>>

PollOne == [id |-> 1, user_id |-> "u1", question |-> Str(0, "q", 1, 0),
            options |-> TwoOptions, created_at |-> 0]

\* the limiter as earlier vote requests of this minute may have left it:
\* untouched, or one request short of the limit for ip1
VoteInitStores ==
    {EmptyStore,
     [k \in {VoteKey("ip1")} |-> [count |-> VoteLimit - 1, resetTime |-> VoteWindowMs]]}

InitVote ==
    /\ polls = {PollOne}
    /\ votes = <<>>
    /\ rateLimitStore \in VoteInitStores
    /\ now = 1
    /\ limit = [maxRequests |-> VoteLimit, windowMs |-> VoteWindowMs]
    /\ req = [s \in Slots |-> Idle]
    /\ log = <<>>
    /\ nextId = 2
    /\ admitted = NoneAdmitted

NextVote ==
    \/ \E s \in Slots, actor \in Voters, ip \in VoteIps, id \in PollIds, raw \in IndexInputs :
            VoteActionBegin(s, actor, ip, id, raw)
    \/ \E s \in Slots, actor \in Voters, id \in PollIds, raw \in IndexInputs :
            VoteRouteBegin(s, actor, id, raw)
    \/ \E s \in Slots : VoteFetch(s)
    \/ \E s \in Slots : VoteCheck(s)
    \/ \E s \in Slots : VoteInsert(s)

SpecVote == InitVote /\ [][NextVote]_vars

\* the vote submissions of voter u on poll p, and those among them that are
\* voteOnPoll calls that got past the poll fetch
Submissions(u, p) ==
    {s \in Slots : req[s].op \in {"voteOnPoll", "POST vote"} /\ req[s].actor = u /\ req[s].id = p}

PastFetch(s) ==
    \/ req[s].pc \in {"check", "insert"}
    \/ req[s].pc = "done" /\ req[s].stage \in {"check", "insert"}

\* what getPollResults counts of one voter's rows
CountedFor(u, p) ==
    Sum(GetPollResults(polls, SelectSeq(votes, LAMBDA row : row.user_id = u), p))

\* C1: when the only two vote submissions of an authenticated voter on a poll
\* are two voteOnPoll calls that both got to the poll fetch, prior-vote check
\* and insert steps, then however these interleaved, once both have returned
\* exactly one returned success, the other returned the already-voted error,
\* and getPollResults counts one vote of that voter.
C1_ConcurrentVotesOneWins ==
    \A u \in Users, p \in PollIds :
        LET subs == Submissions(u, p) IN
        ( /\ Cardinality(subs) = 2
          /\ \A s \in subs : req[s].op = "voteOnPoll" /\ PastFetch(s) /\ req[s].pc = "done" )
        => /\ \E s \in subs :
                /\ req[s].error = Null
                /\ \A t \in subs \ {s} : req[t].error = "You have already voted on this poll."
           /\ Cardinality(VoteRows(votes, p, u)) = 1
           /\ CountedFor(u, p) = 1

\* C1 witness: two voteOnPoll calls of one voter on one poll both passed the
\* prior-vote check; one stored its vote and the other was refused at its insert.
C1_Witness ==
    \E s, t \in Slots, u \in Users :
        /\ s # t
        /\ Submissions(u, 1) = {s, t}
        /\ req[s].op = "voteOnPoll" /\ req[t].op = "voteOnPoll"
        /\ req[s].pc = "done" /\ req[s].stage = "insert" /\ req[s].error = Null
        /\ req[t].pc = "done" /\ req[t].stage = "insert" /\ req[t].error # Null

\* C2: in every reachable state the votes table holds at most one row for any
\* pair (poll_id, user_id) with a non-null user_id.
C2_OneVotePerVoter ==
    \A p \in PollIds, u \in Users : Cardinality(VoteRows(votes, p, u)) <= 1

\* C2 witness: a voteOnPoll call and a route request of the same voter on the
\* same poll both reached their insert; one row is stored, the other insert
\* was refused.
C2_Witness ==
    \E s, t \in Slots, u \in Users :
        /\ req[s].op = "voteOnPoll" /\ req[t].op = "POST vote"
        /\ req[s].actor = u /\ req[t].actor = u
        /\ req[s].id = req[t].id
        /\ req[s].pc = "done" /\ req[s].stage = "insert"
        /\ req[t].pc = "done" /\ req[t].stage = "insert"
        /\ (req[s].error = Null) # (req[t].error = Null)
        /\ Cardinality(VoteRows(votes, req[s].id, u)) = 1

(***************************************************************************)
(* Validation and sanitization of a poll's question and options.           *)
(***************************************************************************)
MaxQuestionLength == 500
MaxOptionLength == 200
MinOptions == 2
MaxOptions == 10

\* options.map((opt) => String(opt).trim())
\*        .filter((opt) => opt.length > 0 && opt.length <= 200)
SanitizeOptions(options) ==
    SelectSeq([i \in DOMAIN options |-> Trim(options[i])],
              LAMBDA opt : StrLen(opt) > 0 /\ StrLen(opt) <= MaxOptionLength)

\* the duplicate check left out
NoDuplicateCheck(sanitized) == FALSE

\* new Set(sanitized).size !== sanitized.length
HasDuplicates(sanitized) ==
    Cardinality({sanitized[i] : i \in DOMAIN sanitized}) # Len(sanitized)

\* the checks on the options that createPoll, updatePoll, POST /polls and
\* PUT /polls/{id} share: the error, or null
OptionsError(options) ==
    IF Len(options) < MinOptions THEN "At least two options are required."
    ELSE IF Len(options) > MaxOptions THEN "Maximum 10 options allowed."
    ELSE IF Len(SanitizeOptions(options)) # Len(options)
    THEN "All options must be between 1 and 200 characters."
    ELSE IF HasDuplicates(SanitizeOptions(options)) THEN "Duplicate options are not allowed."
    ELSE Null

\* createPoll, updatePoll with the length check on the question as sent
ActionBodyErrorUntrimmed(body) ==
    IF StrLen(Trim(body.question)) = 0 THEN "Question is required."
    ELSE IF StrLen(body.question) > MaxQuestionLength
    THEN "Question must be less than 500 characters."
    ELSE OptionsError(body.options)

\* createPoll, updatePoll: the question is trimmed, then checked
ActionBodyError(body) ==
    IF StrLen(Trim(body.question)) = 0 THEN "Question is required."
    ELSE IF StrLen(Trim(body.question)) > MaxQuestionLength
    THEN "Question must be less than 500 characters."
    ELSE OptionsError(body.options)

\* POST /polls, PUT /polls/{id}: the length check is on the question as sent
RouteBodyError(body) ==
    IF StrLen(body.question) = 0 \/ StrLen(Trim(body.question)) = 0 THEN "Question is required."
    ELSE IF StrLen(body.question) > MaxQuestionLength
    THEN "Question must be less than 500 characters."
    ELSE OptionsError(body.options)

\* the question and options written as they were sent
Unsanitized(body) == [question |-> body.question, options |-> body.options]

\* what is written: { question (trimmed), options: sanitized }
Sanitized(body) ==
    [question |-> Trim(body.question), options |-> SanitizeOptions(body.options)]

(***************************************************************************)
(* updatePoll, PUT /polls/{id}, deletePoll, DELETE /polls/{id}             *)
(***************************************************************************)
\* .eq('id', id) alone
MatchesIdOnly(p, id, userId) == p.id = id

\* .eq('id', id).eq('user_id', user.id): the rows a scoped write touches
Matches(p, id, userId) == p.id = id /\ p.user_id = userId

Matching(table, id, userId) == {p \in table : Matches(p, id, userId)}

\* .update({ question, options }).eq('id', id).eq('user_id', user.id)
UpdateRows(table, id, userId, fields) ==
    {IF Matches(p, id, userId)
     THEN [p EXCEPT !.question = fields.question, !.options = fields.options]
     ELSE p : p \in table}

\* .delete().eq('id', id).eq('user_id', user.id)
DeleteRows(table, id, userId) == table \ Matching(table, id, userId)

\* votes.poll_id references polls: the votes of a deleted poll go with it
CascadeVotes(voteTable, pollTable) ==
    SelectSeq(voteTable, LAMBDA row : PollExists(pollTable, row.poll_id))

\* .single() on a result of no rows
NoRowsMessage == "JSON object requested, multiple (or no) rows returned"

\* an updatePoll call arrives: getUser
UpdateActionBegin(s, actor, id, body) ==
    LET r == [Idle EXCEPT !.op = "updatePoll", !.pc = "start", !.actor = actor,
                          !.id = id, !.body = body, !.sent = body]
    IN
    /\ req[s] = Idle
    /\ \A t \in Slots : t < s => req[t] # Idle
    /\ req' = [req EXCEPT ![s] =
          IF actor = Null THEN Answer(r, "You must be logged in to update a poll.", 0)
          ELSE [r EXCEPT !.pc = "fetch"]]
    /\ UNCHANGED <<polls, votes, nextId, rateLimitStore, now, limit, log, admitted>>

\* updatePoll's fetch of the poll's user_id answers: ownership, then validation
UpdateActionFetch(s) ==
    LET r == req[s] IN
    /\ r.op = "updatePoll" /\ r.pc = "fetch"
    /\ req' = [req EXCEPT ![s] =
          IF ~PollExists(polls, r.id) THEN Answer(r, "Poll not found.", 0)
          ELSE IF PollById(polls, r.id).user_id # r.actor
          THEN Answer(r, "You do not have permission to update this poll.", 0)
          ELSE IF ActionBodyError(r.body) # Null THEN Answer(r, ActionBodyError(r.body), 0)
          ELSE [r EXCEPT !.pc = "update", !.body = Sanitized(r.body)]]
    /\ UNCHANGED <<polls, votes, nextId, rateLimitStore, now, limit, log, admitted>>

\* updatePoll's update answers: no row matched is no error to the store
UpdateActionWrite(s) ==
    LET r == req[s] IN
    /\ r.op = "updatePoll" /\ r.pc = "update"
    /\ polls' = UpdateRows(polls, r.id, r.actor, r.body)
    /\ req' = [req EXCEPT ![s] =
          Answer(Revalidate([r EXCEPT !.rows = Cardinality(Matching(polls, r.id, r.actor))],
                            {PollPath(r.id), ListPath}),
                 Null, 0)]
    /\ UNCHANGED <<votes, nextId, rateLimitStore, now, limit, log, admitted>>

\* a PUT /polls/{id} request arrives: validation, then getUser
UpdateRouteBegin(s, actor, id, body) ==
    LET r == [Idle EXCEPT !.op = "PUT", !.pc = "start", !.actor = actor,
                          !.id = id, !.body = body, !.sent = body]
    IN
    /\ req[s] = Idle
    /\ \A t \in Slots : t < s => req[t] # Idle
    /\ req' = [req EXCEPT ![s] =
          IF RouteBodyError(body) # Null THEN Answer(r, RouteBodyError(body), 400)
          ELSE IF actor = Null THEN Answer(r, "You must be logged in to update a poll.", 401)
          ELSE [r EXCEPT !.pc = "update", !.body = Sanitized(body)]]
    /\ UNCHANGED <<polls, votes, nextId, rateLimitStore, now, limit, log, admitted>>

\* PUT's update(...).select().single() answers: no row matched is an error
UpdateRouteWrite(s) ==
    LET r == req[s]
        n == Cardinality(Matching(polls, r.id, r.actor))
    IN
    /\ r.op = "PUT" /\ r.pc = "update"
    /\ polls' = UpdateRows(polls, r.id, r.actor, r.body)
    /\ req' = [req EXCEPT ![s] =
          IF n = 0 THEN Answer(r, NoRowsMessage, 500)
          ELSE Answer(Revalidate([r EXCEPT !.rows = n], {PollPath(r.id), ListPath}), Null, 200)]
    /\ UNCHANGED <<votes, nextId, rateLimitStore, now, limit, log, admitted>>

\* a deletePoll call or a DELETE /polls/{id} request arrives: getUser
DeleteBegin(s, op, actor, id) ==
    LET r == [Idle EXCEPT !.op = op, !.pc = "start", !.actor = actor, !.id = id]
        route == op = "DELETE"
    IN
    /\ req[s] = Idle
    /\ \A t \in Slots : t < s => req[t] # Idle
    /\ req' = [req EXCEPT ![s] =
          IF actor = Null
          THEN Answer(r, "You must be logged in to delete a poll.", IF route THEN 401 ELSE 0)
          ELSE [r EXCEPT !.pc = "delete"]]
    /\ UNCHANGED <<polls, votes, nextId, rateLimitStore, now, limit, log, admitted>>

\* the scoped delete answers: no row matched is no error to the store, and
\* the handler returns {} (deletePoll) or { success: true } (DELETE)
DeleteWrite(s) ==
    LET r == req[s]
        route == r.op = "DELETE"
    IN
    /\ r.op \in {"deletePoll", "DELETE"} /\ r.pc = "delete"
    /\ polls' = DeleteRows(polls, r.id, r.actor)
    /\ votes' = CascadeVotes(votes, polls')
    /\ req' = [req EXCEPT ![s] =
          Answer(Revalidate([r EXCEPT !.rows = Cardinality(Matching(polls, r.id, r.actor))],
                            {ListPath}),
                 Null, IF route THEN 200 ELSE 0)]
    /\ UNCHANGED <<nextId, rateLimitStore, now, limit, log, admitted>>

(***************************************************************************)
(* SpecPolls: update and delete requests of the owner, of another user and *)
(* of anonymous callers, through both entry points, interleaved, on a      *)
(* store that holds one poll of u1; poll id 2 was never given out.         *)
(***************************************************************************)
NewBody == [question |-> Str(1, "r", 1, 0),
            options |-> <<Str(0, "c", 1, 0), Str(0, "d", 1, 1)>>]

BlankBody == [question |-> Str(1, "", 0, 1),
              options |-> <<Str(0, "c", 1, 0), Str(0, "d", 1, 1)>>]

Bodies == {NewBody, BlankBody}

InitPolls ==
    /\ polls = {PollOne}
    /\ votes = <<>>
    /\ nextId = 2
    /\ rateLimitStore = EmptyStore
    /\ now = 1
    /\ limit = [maxRequests |-> VoteLimit, windowMs |-> VoteWindowMs]
    /\ req = [s \in Slots |-> Idle]
    /\ log = <<>>
    /\ admitted = NoneAdmitted

NextPolls ==
    \/ \E s \in Slots, actor \in Actors, id \in PollIds, body \in Bodies :
            UpdateActionBegin(s, actor, id, body)
    \/ \E s \in Slots : UpdateActionFetch(s)
    \/ \E s \in Slots : UpdateActionWrite(s)
    \/ \E s \in Slots, actor \in Actors, id \in PollIds, body \in Bodies :
            UpdateRouteBegin(s, actor, id, body)
    \/ \E s \in Slots : UpdateRouteWrite(s)
    \/ \E s \in Slots, op \in {"deletePoll", "DELETE"}, actor \in Actors, id \in PollIds :
            DeleteBegin(s, op, actor, id)
    \/ \E s \in Slots : DeleteWrite(s)

SpecPolls == InitPolls /\ [][NextPolls]_vars

\* the slot whose request takes this step
Stepped(s) == req'[s] # req[s]

\* C3: no step of an updatePoll, PUT, deletePoll or DELETE request of an
\* authenticated actor A changes or removes a poll row owned by another user:
\* the row stays in the polls table as it is.
C3_OnlyOwnerMutates ==
    [][\A s \in Slots :
          (Stepped(s) /\ req'[s].actor \in Users)
              => \A p \in polls : p.user_id # req'[s].actor => p \in polls']_vars

\* C3 witness: requests of u2 on the poll of u1 reached their store write
\* (a PUT and a delete) and have returned; the poll is still as it was.
C3_Witness ==
    \E s, t \in Slots :
        /\ req[s].actor = "u2" /\ req[s].id = 1 /\ req[s].op = "PUT"
        /\ req[s].pc = "done" /\ req[s].stage = "update"
        /\ req[t].actor = "u2" /\ req[t].id = 1 /\ req[t].op \in {"deletePoll", "DELETE"}
        /\ req[t].pc = "done" /\ req[t].stage = "delete"
        /\ polls = {PollOne}

\* C4: a delete request of an authenticated actor whose scoped delete matched
\* no row (the poll does not exist, or is owned by someone else) returns an
\* error.
C4_DeleteOfNothingFails ==
    \A s \in Slots :
        ( /\ req[s].op \in {"deletePoll", "DELETE"}
          /\ req[s].pc = "done"
          /\ req[s].stage = "delete"
          /\ req[s].rows = 0 )
        => req[s].error # Null

\* C5: the answer an authenticated actor gets from updatePoll on a poll owned
\* by another user is the answer the same call gets on a poll id that does
\* not exist.
C5_UpdateHidesExistence ==
    \A s, t \in Slots :
        ( /\ req[s].op = "updatePoll" /\ req[t].op = "updatePoll"
          /\ req[s].actor \in Users /\ req[t].actor = req[s].actor
          /\ req[s].body = req[t].body
          /\ req[s].pc = "done" /\ req[t].pc = "done"
          /\ PollExists(polls, req[s].id)
          /\ PollById(polls, req[s].id).user_id # req[s].actor
          /\ req[t].id >= nextId )
        => (req[s].error = req[t].error /\ req[s].status = req[t].status)

\* C24: updatePoll authenticates before it validates: an unauthenticated
\* caller gets the not-logged-in answer (401 on PUT /polls/{id}) for every
\* request body, valid or not, and an authenticated caller who does not own
\* the poll gets the authorization answer before any validation error.
C24_AuthenticateBeforeValidate ==
    \A s \in Slots :
        LET r == req[s] IN
        (r.op \in {"updatePoll", "PUT"} /\ r.pc = "done")
        => /\ r.actor = Null
              => /\ r.error = "You must be logged in to update a poll."
                 /\ r.op = "PUT" => r.status = 401
           /\ ( /\ r.op = "updatePoll"
                /\ r.actor # Null
                /\ r.stage = "fetch"
                /\ PollExists(polls, r.id)
                /\ PollById(polls, r.id).user_id # r.actor )
              => r.error = "You do not have permission to update this poll."

\* C29: when the updatePoll server action returns success, then at the moment
\* of its write the poll row with that id existed and was owned by the caller,
\* and after the write it carries the submitted trimmed question and sanitized
\* options, also when another request deleted the poll between updatePoll's
\* ownership fetch and its write.
C29_UpdateSuccessMeansWritten ==
    [][\A s \in Slots :
          ( /\ req[s].op = "updatePoll" /\ req[s].pc = "update"
            /\ req'[s].pc = "done" /\ req'[s].error = Null )
          => /\ \E p \in polls : p.id = req[s].id /\ p.user_id = req[s].actor
             /\ \E q \in polls' :
                   /\ q.id = req[s].id
                   /\ q.question = Trim(req[s].sent.question)
                   /\ q.options = SanitizeOptions(req[s].sent.options)]_vars

(***************************************************************************)
(* createPoll (server action) and POST /polls (route)                      *)
(***************************************************************************)
CreateLimit == 10
CreateWindowMs == 3600000

\* the key `createPoll:${...}`
CreateKey(ident) == <<"createPoll", ident>>

\* the proxy headers of a request: x-forwarded-for (its first entry, trimmed)
\* and x-real-ip, each null when absent
NoHeaders == [xff |-> Null, xri |-> Null]

\* (headersList.get('x-forwarded-for')?.split(',')[0].trim())
\*     || headersList.get('x-real-ip') || 'unknown'
FirstIp(headers) ==
    IF headers.xff # Null /\ headers.xff # "" THEN headers.xff
    ELSE IF headers.xri # Null /\ headers.xri # "" THEN headers.xri
    ELSE "unknown"

\* the create request passed the rate-limit stage
Admit(actor) == [admitted EXCEPT ![actor] = @ + 1]

\* a createPoll call arrives and runs to its insert: getUser, the rate limit
\* keyed by the client address of the headers, validation
CreateActionBegin(s, actor, headers, body) ==
    LET r == [Idle EXCEPT !.op = "createPoll", !.pc = "start", !.actor = actor,
                          !.ip = FirstIp(headers), !.body = body, !.sent = body]
        rate == RateLimit(rateLimitStore, CreateKey(FirstIp(headers)),
                          CreateLimit, CreateWindowMs, now)
    IN
    /\ req[s] = Idle
    /\ \A t \in Slots : t < s => req[t] # Idle
    /\ IF actor = Null
       THEN /\ req' = [req EXCEPT ![s] = Answer(r, "You must be logged in to create a poll.", 0)]
            /\ UNCHANGED <<rateLimitStore, admitted>>
       ELSE /\ rateLimitStore' = rate.store
            /\ admitted' = IF rate.allowed THEN Admit(actor) ELSE admitted
            /\ req' = [req EXCEPT ![s] =
                  IF ~rate.allowed
                  THEN Answer(r, "Too many polls created. Please try again later.", 0)
                  ELSE IF ActionBodyError(body) # Null THEN Answer(r, ActionBodyError(body), 0)
                  ELSE [r EXCEPT !.pc = "insert", !.body = Sanitized(body)]]
    /\ UNCHANGED <<polls, votes, nextId, now, limit, log>>

\* a POST /polls request arrives and runs to its insert: getUser, the rate
\* limit keyed by the user id, validation
CreateRouteBegin(s, actor, body) ==
    LET r == [Idle EXCEPT !.op = "POST", !.pc = "start", !.actor = actor,
                          !.body = body, !.sent = body]
        rate == RateLimit(rateLimitStore, CreateKey(actor), CreateLimit, CreateWindowMs, now)
    IN
    /\ req[s] = Idle
    /\ \A t \in Slots : t < s => req[t] # Idle
    /\ IF actor = Null
       THEN /\ req' = [req EXCEPT ![s] = Answer(r, "You must be logged in to create a poll.", 401)]
            /\ UNCHANGED <<rateLimitStore, admitted>>
       ELSE /\ rateLimitStore' = rate.store
            /\ admitted' = IF rate.allowed THEN Admit(actor) ELSE admitted
            /\ req' = [req EXCEPT ![s] =
                  IF ~rate.allowed
                  THEN Answer(r, "Too many polls created. Please try again later.", 429)
                  ELSE IF RouteBodyError(body) # Null THEN Answer(r, RouteBodyError(body), 400)
                  ELSE [r EXCEPT !.pc = "insert", !.body = Sanitized(body)]]
    /\ UNCHANGED <<polls, votes, nextId, now, limit, log>>

\* the insert with the owner taken from the request body: user_id: body.user_id
CreateInsertClientOwner(s) ==
    LET r == req[s]
        route == r.op = "POST"
        row == [id |-> nextId, user_id |-> r.sent.user_id,
                question |-> r.body.question, options |-> r.body.options,
                created_at |-> now]
    IN
    /\ r.op \in {"createPoll", "POST"} /\ r.pc = "insert"
    /\ polls' = polls \cup {row}
    /\ nextId' = nextId + 1
    /\ req' = [req EXCEPT ![s] =
          Answer(Revalidate([r EXCEPT !.id = nextId, !.rows = 1], {ListPath}),
                 Null, IF route THEN 201 ELSE 0)]
    /\ UNCHANGED <<votes, rateLimitStore, now, limit, log, admitted>>

\* the insert answers: the store gives the row its id and its created_at
CreateInsert(s) ==
    LET r == req[s]
        route == r.op = "POST"
        row == [id |-> nextId, user_id |-> r.actor,
                question |-> r.body.question, options |-> r.body.options,
                created_at |-> now]
    IN
    /\ r.op \in {"createPoll", "POST"} /\ r.pc = "insert"
    /\ polls' = polls \cup {row}
    /\ nextId' = nextId + 1
    /\ req' = [req EXCEPT ![s] =
          Answer(Revalidate([r EXCEPT !.id = nextId, !.rows = 1], {ListPath}),
                 Null, IF route THEN 201 ELSE 0)]
    /\ UNCHANGED <<votes, rateLimitStore, now, limit, log, admitted>>

\* the answer is delivered and the slot is free for the next request
Retire(s) ==
    /\ req[s].pc = "done"
    /\ req' = [req EXCEPT ![s] = Idle]
    /\ UNCHANGED <<polls, votes, nextId, rateLimitStore, now, limit, log, admitted>>

(***************************************************************************)
(* SpecCreate: create requests one after the other, all inside one         *)
(* rate-limit window (the clock stands still), through both entry points   *)
(* and with whatever proxy headers the client sends.                       *)
(***************************************************************************)
CreateHeaders == {NoHeaders, [xff |-> "ip1", xri |-> Null]}
Creators == {"u1", Null}

InitCreate ==
    /\ polls = {}
    /\ votes = <<>>
    /\ nextId = 1
    /\ rateLimitStore = EmptyStore
    /\ now = 1
    /\ limit = [maxRequests |-> CreateLimit, windowMs |-> CreateWindowMs]
    /\ req = [s \in Slots |-> Idle]
    /\ log = <<>>
    /\ admitted = NoneAdmitted

NextCreate ==
    \/ \E actor \in Creators, headers \in CreateHeaders, body \in Bodies :
            CreateActionBegin(1, actor, headers, body)
    \/ \E actor \in Creators, body \in Bodies : CreateRouteBegin(1, actor, body)
    \/ CreateInsert(1)
    \/ Retire(1)

SpecCreate == InitCreate /\ [][NextCreate]_vars

\* C10: for any authenticated actor, at most 10 create requests pass the
\* rate-limit stage within one rate-limit window, counting createPoll and
\* POST /polls together and whatever x-forwarded-for / x-real-ip headers the
\* requests carry.
C10_CreateLimitPerActor == \A u \in Users : admitted[u] <= CreateLimit

(***************************************************************************)
(* SpecValidate: create and update requests of one user, one after the     *)
(* other, through the server actions and the HTTP API, with questions and  *)
(* option lists on both sides of every validation limit.                   *)
(***************************************************************************)
MaxCreates == 2      \* create requests a run of SpecValidate lets in

\* k options "o", "oo", ... each sent with a blank before and after
Numbered(k) == [i \in 1..k |-> Str(1, "o", i, 1)]

Questions ==
    {Str(1, "", 0, 1),                          \* blanks only
     Str(1, "q", 1, 1),
     Str(1, "q", MaxQuestionLength, 0),         \* 500 characters once trimmed
     Str(0, "q", MaxQuestionLength + 1, 0)}

OptionLists ==
    {<<Str(0, "a", 1, 0)>>,
     Numbered(MinOptions),
     Numbered(MaxOptions),
     Numbered(MaxOptions + 1),
     <<Str(1, "o", MaxOptionLength, 1), Str(0, "o", 1, 0)>>,
     <<Str(0, "o", MaxOptionLength + 1, 0), Str(0, "o", 1, 0)>>,
     <<Str(0, "a", 1, 0), Str(2, "", 0, 0)>>,
     <<Str(0, "a", 1, 0), Str(0, "A", 1, 0)>>,
     <<Str(0, "a", 1, 0), Str(0, "b", 1, 0), Str(1, "a", 1, 0)>>,
     <<Str(0, "", 0, 0), Str(1, "", 0, 0)>>,
     Numbered(MaxOptions) \o <<Str(0, "o", 1, 0)>>}

ValidateBodies == [question : Questions, options : OptionLists]

InitValidate ==
    /\ polls = {}
    /\ votes = <<>>
    /\ nextId = 1
    /\ rateLimitStore = EmptyStore
    /\ now = 1
    /\ limit = [maxRequests |-> CreateLimit, windowMs |-> CreateWindowMs]
    /\ req = [s \in Slots |-> Idle]
    /\ log = <<>>
    /\ admitted = NoneAdmitted

NextValidate ==
    \/ \E body \in ValidateBodies :
            admitted["u1"] < MaxCreates /\ CreateActionBegin(1, "u1", NoHeaders, body)
    \/ \E body \in ValidateBodies :
            admitted["u1"] < MaxCreates /\ CreateRouteBegin(1, "u1", body)
    \/ CreateInsert(1)
    \/ \E id \in PollIds, body \in ValidateBodies : UpdateActionBegin(1, "u1", id, body)
    \/ UpdateActionFetch(1)
    \/ UpdateActionWrite(1)
    \/ \E id \in PollIds, body \in ValidateBodies : UpdateRouteBegin(1, "u1", id, body)
    \/ UpdateRouteWrite(1)
    \/ Retire(1)

SpecValidate == InitValidate /\ [][NextValidate]_vars

\* the options of a list, each trimmed, in the order sent
TrimmedOptions(options) == [i \in DOMAIN options |-> Trim(options[i])]

\* two entries of the list are equal once trimmed
DuplicateAfterTrim(options) ==
    \E i, j \in DOMAIN options : i # j /\ Trim(options[i]) = Trim(options[j])

\* a question of 1 to 500 characters once trimmed, and 2 to 10 options that
\* once trimmed have 1 to 200 characters each and are pairwise distinct
ValidInput(body) ==
    /\ StrLen(Trim(body.question)) >= 1
    /\ StrLen(Trim(body.question)) <= 500
    /\ Len(body.options) >= 2
    /\ Len(body.options) <= 10
    /\ \A i \in DOMAIN body.options :
          StrLen(Trim(body.options[i])) >= 1 /\ StrLen(Trim(body.options[i])) <= 200
    /\ ~DuplicateAfterTrim(body.options)

ValidationErrors ==
    {"Question is required.",
     "Question must be less than 500 characters.",
     "At least two options are required.",
     "Maximum 10 options allowed.",
     "All options must be between 1 and 200 characters.",
     "Duplicate options are not allowed."}

\* the request was turned away before validation: not signed in, rate
\* limited, poll missing or not the caller's
TurnedAway(r) ==
    r.error \in {"You must be logged in to create a poll.",
                 "You must be logged in to update a poll.",
                 "Too many polls created. Please try again later.",
                 "Poll not found.",
                 "You do not have permission to update this poll."}

\* C11, the answer: a createPoll call of an authenticated, not rate-limited
\* caller with a valid question and valid options has returned: it succeeded,
\* and the poll it stored carries the trimmed question and the trimmed options
\* in the order sent.
C11_Answer ==
    \A s \in Slots :
        LET r == req[s] IN
        ( /\ r.op = "createPoll" /\ r.pc = "done"
          /\ r.actor # Null
          /\ r.error # "Too many polls created. Please try again later."
          /\ ValidInput(r.sent) )
        => /\ r.error = Null
           /\ r.rows = 1
           /\ Cardinality({p \in polls : p.id = r.id}) = 1
           /\ PollById(polls, r.id).question = Trim(r.sent.question)
           /\ PollById(polls, r.id).options = TrimmedOptions(r.sent.options)
           /\ PollById(polls, r.id).user_id = r.actor

\* C11, the write: the step in which a createPoll call returns adds exactly
\* one row to polls when the call succeeded and none otherwise.
C11_Write ==
    \A s \in Slots :
        (req[s].op \in {"idle", "createPoll"} /\ req'[s].op = "createPoll" /\ req'[s].pc = "done" /\ req[s].pc # "done")
        => /\ polls \subseteq polls'
           /\ Cardinality(polls') = Cardinality(polls) + (IF req'[s].error = Null THEN 1 ELSE 0)

C12_Answer ==
    \A s \in Slots :
        LET r == req[s] IN
        ( /\ r.op \in {"createPoll", "updatePoll", "PUT"} /\ r.pc = "done"
          /\ ~TurnedAway(r)
          /\ DuplicateAfterTrim(r.sent.options) )
        => /\ r.error \in ValidationErrors
           /\ r.rows = 0
           /\ r.stage \in {"start", "fetch"}

\* C12, the table: no step of such a request changes the polls table.
C12_Table ==
    \A s \in Slots :
        ( /\ Stepped(s)
          /\ req'[s].op \in {"createPoll", "updatePoll", "PUT"}
          /\ DuplicateAfterTrim(req'[s].sent.options) )
        => polls' = polls

\* C12: for every option list in which two entries are equal after trimming
\* (case-sensitive), createPoll and updatePoll return a validation error and
\* the polls table is unchanged: no row inserted, no row updated.
C12_DuplicatesRejected == []C12_Answer /\ [][C12_Table]_vars

\* C12 witness: an updatePoll call of a poll's owner, with a valid question
\* and three options of which the first and the last differ as sent and are
\* equal after trimming, was answered "Duplicate options are not allowed."
C12_Witness ==
    \E s \in Slots :
        /\ req[s].op = "updatePoll" /\ req[s].pc = "done"
        /\ req[s].error = "Duplicate options are not allowed."
        /\ Len(req[s].sent.options) = 3
        /\ req[s].sent.options[1] # req[s].sent.options[3]
        /\ Trim(req[s].sent.options[1]) = Trim(req[s].sent.options[3])
        /\ PollExists(polls, req[s].id)
        /\ PollById(polls, req[s].id).user_id = req[s].actor

\* a stored poll as the validation promises it
WellFormed(p) ==
    /\ StrLen(p.question) >= 1
    /\ StrLen(p.question) <= 500
    /\ Len(p.options) >= 2
    /\ Len(p.options) <= 10
    /\ \A i \in DOMAIN p.options :
          /\ p.options[i] = Trim(p.options[i])
          /\ StrLen(p.options[i]) >= 1
          /\ StrLen(p.options[i]) <= 200
    /\ \A i, j \in DOMAIN p.options : i # j => p.options[i] # p.options[j]

\* C13: in every reachable state, after any sequence of create and update
\* requests through the server actions and the HTTP API, every stored poll has
\* a question of 1 to 500 characters and between 2 and 10 options that are
\* each trimmed, non-empty, at most 200 characters, and pairwise distinct.
C13_StoredPollsWellFormed == \A p \in polls : WellFormed(p)

\* C13 witness: a poll created through POST /polls with ten options sent with
\* blanks around them was then rewritten by an updatePoll call whose question
\* has 500 characters after trimming and whose first option has 200.
C13_Witness ==
    \E s \in Slots :
        /\ req[s].op = "updatePoll" /\ req[s].pc = "done" /\ req[s].rows = 1
        /\ StrLen(req[s].sent.question) = MaxQuestionLength + 1
        /\ StrLen(req[s].sent.options[1]) = MaxOptionLength + 2
        /\ \E p \in polls :
              /\ p.id = req[s].id
              /\ StrLen(p.question) = MaxQuestionLength
              /\ StrLen(p.options[1]) = MaxOptionLength
        /\ \E p \in polls : p.id # req[s].id /\ Len(p.options) = MaxOptions

\* C27: the JSON API mirrors the form actions: an authenticated, not
\* rate-limited POST /polls request is accepted exactly when createPoll
\* accepts the same question and options, and then stores the question and
\* options createPoll stores; PUT /polls/{id} rejects a question and options
\* exactly when create does.
C27_ApiMirrorsActions ==
    \A s \in Slots :
        LET r == req[s] IN
        (r.op \in {"POST", "PUT"} /\ r.pc = "done" /\ r.actor # Null /\ ~TurnedAway(r))
        => /\ (r.error \in ValidationErrors) <=> (ActionBodyError(r.sent) # Null)
           /\ (r.op = "POST" /\ r.error = Null)
                 => /\ PollById(polls, r.id).question = Sanitized(r.sent).question
                    /\ PollById(polls, r.id).options = Sanitized(r.sent).options

(***************************************************************************)
(* The poll detail view: getPollById, then getPollResults (its poll read   *)
(* and its votes read), then the counts and percentages it displays.       *)
(***************************************************************************)
\* the counts thrown away when their number is not the option count
NormalizeToZero(counts, optionCount) ==
    IF Len(counts) # optionCount THEN [i \in 1..optionCount |-> 0] ELSE counts

\* if (counts.length !== optionCount): one entry per option, counts[i] kept
\* where there is one, 0 elsewhere
Normalize(counts, optionCount) ==
    IF Len(counts) # optionCount
    THEN [i \in 1..optionCount |-> IF i <= Len(counts) THEN counts[i] ELSE 0]
    ELSE counts

\* the percentage cut off instead of rounded
GetPercentageTruncated(v, totalVotes) ==
    IF totalVotes = 0 THEN 0 ELSE (100 * v) \div totalVotes

\* getPercentage: Math.round((votes / totalVotes) * 100), which rounds a half
\* up; 0 when there are no votes
GetPercentage(v, totalVotes) ==
    IF totalVotes = 0 THEN 0 ELSE (200 * v + totalVotes) \div (2 * totalVotes)

\* the view is rendered from the poll it fetched and the counts it was given
Render(r, counts) ==
    LET optionCount == Len(r.body)
        shown == Normalize(counts, optionCount)
        totalVotes == Sum(shown)
    IN Answer([r EXCEPT !.counts = counts,
                        !.shown = shown,
                        !.percent = [i \in 1..optionCount |-> GetPercentage(shown[i], totalVotes)]],
              Null, 0)

\* a visitor opens /polls/{id}
PageBegin(s, id) ==
    /\ req[s] = Idle
    /\ req' = [req EXCEPT ![s] = [Idle EXCEPT !.op = "PollDetailPage", !.pc = "getPollById", !.id = id]]
    /\ UNCHANGED <<polls, votes, nextId, rateLimitStore, now, limit, log, admitted>>

\* getPollById answers: the poll the view is about, or "Poll not found."
PageGetPoll(s) ==
    LET r == req[s] IN
    /\ r.op = "PollDetailPage" /\ r.pc = "getPollById"
    /\ req' = [req EXCEPT ![s] =
          IF ~PollExists(polls, r.id) THEN Answer(r, "Poll not found.", 0)
          ELSE [r EXCEPT !.pc = "results", !.body = PollById(polls, r.id).options]]
    /\ UNCHANGED <<polls, votes, nextId, rateLimitStore, now, limit, log, admitted>>

\* getPollResults' read of the poll's options answers; on a missing poll it
\* returns counts: [] and the view is rendered from that
ResultsPoll(s) ==
    LET r == req[s] IN
    /\ r.op = "PollDetailPage" /\ r.pc = "results"
    /\ req' = [req EXCEPT ![s] =
          IF ~PollExists(polls, r.id) THEN Render(r, <<>>)
          ELSE [r EXCEPT !.pc = "votes", !.options = PollById(polls, r.id).options]]
    /\ UNCHANGED <<polls, votes, nextId, rateLimitStore, now, limit, log, admitted>>

\* getPollResults' read of the votes answers: it tallies and returns, and the
\* view is rendered
ResultsVotes(s) ==
    LET r == req[s] IN
    /\ r.op = "PollDetailPage" /\ r.pc = "votes"
    /\ req' = [req EXCEPT ![s] = Render(r, Tally(Len(r.options), votes, r.id))]
    /\ UNCHANGED <<polls, votes, nextId, rateLimitStore, now, limit, log, admitted>>

\* getPollResults' read of the votes answers with an error of the store: it
\* returns counts: [] and the view is rendered from that
ResultsVotesError(s) ==
    LET r == req[s] IN
    /\ r.op = "PollDetailPage" /\ r.pc = "votes"
    /\ req' = [req EXCEPT ![s] = Render(r, <<>>)]
    /\ UNCHANGED <<polls, votes, nextId, rateLimitStore, now, limit, log, admitted>>

(***************************************************************************)
(* SpecResults: anonymous votes on a poll of three options and updates of  *)
(* its owner that shorten it to two or restore the three, one after the    *)
(* other (slot 1), while a visitor opens the poll's page (slot 2).         *)
(***************************************************************************)
MaxVotes == 3        \* vote rows a run of SpecResults stores

ThreeOptions == <<Str(0, "a", 1, 0), Str(0, "b", 1, 0), Str(0, "c", 1, 0)>>

PollThree == [id |-> 1, user_id |-> "u1", question |-> Str(0, "q", 1, 0),
              options |-> ThreeOptions, created_at |-> 0]

ResultIndexInputs == {Num(0), Num(1), Num(2)}

ResultBodies == {[question |-> Str(0, "q", 1, 0), options |-> TwoOptions],
                 [question |-> Str(0, "q", 1, 0), options |-> ThreeOptions]}

InitResults ==
    /\ polls = {PollThree}
    /\ votes = <<>>
    /\ nextId = 2
    /\ rateLimitStore = EmptyStore
    /\ now = 1
    /\ limit = [maxRequests |-> VoteLimit, windowMs |-> VoteWindowMs]
    /\ req = [s \in Slots |-> Idle]
    /\ log = <<>>
    /\ admitted = NoneAdmitted

NextResults ==
    \/ \E raw \in ResultIndexInputs :
            Len(votes) < MaxVotes /\ VoteActionBegin(1, Null, "ip1", 1, raw)
    \/ VoteFetch(1)
    \/ VoteInsert(1)
    \/ \E body \in ResultBodies : UpdateActionBegin(1, "u1", 1, body)
    \/ UpdateActionFetch(1)
    \/ UpdateActionWrite(1)
    \/ Retire(1)
    \/ \E id \in PollIds : PageBegin(2, id)
    \/ PageGetPoll(2)
    \/ ResultsPoll(2)
    \/ ResultsVotes(2)
    \/ Retire(2)

SpecResults == InitResults /\ [][NextResults]_vars

\* the vote rows of poll p whose option_index is k
RowsAt(p, k) == {j \in DOMAIN votes : votes[j].poll_id = p /\ votes[j].option_index = k}

\* the vote rows of poll p whose option_index is one of n options
RowsInRange(p, n) ==
    {j \in DOMAIN votes :
        votes[j].poll_id = p /\ votes[j].option_index >= 0 /\ votes[j].option_index < n}

\* C14: in the step in which getPollResults returns for an existing poll, the
\* counts array has one entry per option the call read (the poll's current
\* number of options whenever no update was written between the call's read
\* of the poll and its read of the votes), counts[i] is exactly the number of
\* vote rows of that poll with option_index = i, and rows whose option_index
\* is outside the option range are skipped: the sum of the counts is the
\* number of in-range rows.
C14_TallyExact ==
    [][\A s \in Slots :
          (req[s].op = "PollDetailPage" /\ req[s].pc = "votes" /\ req'[s].pc = "done")
          => LET counts == req'[s].counts
                 n == Len(req[s].options)
                 p == req[s].id
             IN /\ Len(counts) = n
                /\ (PollExists(polls, p) /\ PollById(polls, p).options = req[s].options)
                      => Len(counts) = Len(PollById(polls, p).options)
                /\ \A i \in 1..n : counts[i] = Cardinality(RowsAt(p, i - 1))
                /\ Sum(counts) = Cardinality(RowsInRange(p, n))]_vars

\* C14 witness: the poll was shortened to two options after a vote for its
\* third option was stored; getPollResults has just returned two counts that
\* leave that row out and count the others.
C14_Witness ==
    \E s \in Slots :
        /\ req[s].op = "PollDetailPage" /\ req[s].pc = "done" /\ req[s].stage = "votes"
        /\ req[s].options = PollById(polls, req[s].id).options
        /\ Len(req[s].counts) = 2
        /\ RowsAt(req[s].id, 2) # {}
        /\ Sum(req[s].counts) >= 2
        /\ Sum(req[s].counts) = Cardinality(RowsInRange(req[s].id, 2))
        /\ Sum(req[s].counts) < Len(votes)

\* p is an integer nearest to 100 * v / total
Nearest(p, v, total) ==
    /\ 2 * (100 * v - p * total) <= total
    /\ 2 * (p * total - 100 * v) <= total

\* C15, the rounding: in a rendered poll detail view the percentage of every
\* option is 100 * counts[i] / total rounded to the nearest integer, and 0
\* for every option when the total is 0.
C15_Rounded ==
    \A s \in Slots :
        (req[s].op = "PollDetailPage" /\ req[s].pc = "done" /\ req[s].error = Null)
        => LET total == Sum(req[s].shown) IN
           /\ DOMAIN req[s].percent = DOMAIN req[s].shown
           /\ \A i \in DOMAIN req[s].shown :
                 IF total = 0 THEN req[s].percent[i] = 0
                 ELSE Nearest(req[s].percent[i], req[s].shown[i], total)

\* C15, the example: the view of a poll of three options whose votes are, in
\* order, for options 0, 0 and 1 gets the counts [2,1,0], the total 3 and
\* shows the percentages [67,33,0].
C15_Example ==
    \A s \in Slots :
        ( /\ req[s].op = "PollDetailPage" /\ req[s].pc = "votes" /\ req'[s].pc = "done"
          /\ Len(req[s].body) = 3 /\ Len(req[s].options) = 3
          /\ [j \in DOMAIN votes |-> votes[j].option_index] = <<0, 0, 1>>
          /\ \A j \in DOMAIN votes : votes[j].poll_id = req[s].id )
        => /\ req'[s].counts = <<2, 1, 0>>
           /\ Sum(req'[s].shown) = 3
           /\ req'[s].percent = <<67, 33, 0>>

\* C15: the displayed percentage of option i is 100 * counts[i] / total
\* rounded to the nearest integer, and is 0 for every option when total is 0;
\* for options [A,B,C] with votes [0,0,1] the result is counts [2,1,0], total
\* 3, percentages [67,33,0].
C15_Percentages == []C15_Rounded /\ [][C15_Example]_vars

\* C15 witness: a view rendered with the counts [2,1,0] and the percentages
\* [67,33,0].
C15_Witness ==
    \E s \in Slots :
        /\ req[s].op = "PollDetailPage" /\ req[s].pc = "done"
        /\ req[s].counts = <<2, 1, 0>>
        /\ req[s].percent = <<67, 33, 0>>
        /\ [j \in DOMAIN votes |-> votes[j].option_index] = <<0, 0, 1>>

(***************************************************************************)
(* SpecDetail: as SpecResults, and the owner may also delete the poll,     *)
(* and the store may fail the view's read of the votes.                    *)
(***************************************************************************)
NextDetail ==
    \/ \E raw \in ResultIndexInputs :
            Len(votes) < MaxVotes /\ VoteActionBegin(1, Null, "ip1", 1, raw)
    \/ VoteFetch(1)
    \/ VoteInsert(1)
    \/ \E body \in ResultBodies : UpdateActionBegin(1, "u1", 1, body)
    \/ UpdateActionFetch(1)
    \/ UpdateActionWrite(1)
    \/ DeleteBegin(1, "deletePoll", "u1", 1)
    \/ DeleteWrite(1)
    \/ Retire(1)
    \/ PageBegin(2, 1)
    \/ PageGetPoll(2)
    \/ ResultsPoll(2)
    \/ ResultsVotes(2)
    \/ ResultsVotesError(2)
    \/ Retire(2)

SpecDetail == InitResults /\ [][NextDetail]_vars

\* C28: a rendered poll detail view works with exactly one count per option
\* of the poll it fetched: when getPollResults returned a counts array of
\* another length (the poll was updated between the two reads, or the results
\* could not be read and came back empty), the view keeps counts[i] for every
\* i in range and fills the rest with zeros.
C28_OneCountPerOption ==
    \A s \in Slots :
        LET r == req[s] IN
        (r.op = "PollDetailPage" /\ r.pc = "done" /\ r.error = Null)
        => /\ Len(r.shown) = Len(r.body)
           /\ \A i \in 1..Len(r.body) :
                 r.shown[i] = IF i <= Len(r.counts) THEN r.counts[i] ELSE 0

\* C28 witness: the view fetched the poll with three options, the owner then
\* shortened it to two, getPollResults returned two counts with votes in
\* them, and the view shows three counts, the last one zero.
C28_Witness ==
    \E s \in Slots :
        /\ req[s].op = "PollDetailPage" /\ req[s].pc = "done" /\ req[s].error = Null
        /\ Len(req[s].body) = 3
        /\ Len(req[s].counts) = 2
        /\ Sum(req[s].counts) >= 2
        /\ req[s].shown = req[s].counts \o <<0>>

(***************************************************************************)
(* The admin panel: AdminPage and its fetchAllPolls.                       *)
(***************************************************************************)
AdminEmail == "admin@example.com"

\* const isAdmin = user?.email === "admin@example.com"
IsAdmin(r) == r.actor # Null /\ r.email = AdminEmail

\* the panel's effect runs once the session is known: no user goes to /login,
\* a user who is not isAdmin to /polls, and for the others fetchAllPolls starts
AdminPageBegin(s, actor, email, role) ==
    LET r == [Idle EXCEPT !.op = "AdminPage", !.pc = "start", !.actor = actor,
                          !.email = email, !.role = role]
    IN
    /\ req[s] = Idle
    /\ \A t \in Slots : t < s => req[t] # Idle
    /\ req' = [req EXCEPT ![s] =
          IF r.actor = Null THEN Answer(r, "Please log in to access this page.", 0)
          ELSE IF ~IsAdmin(r) THEN Answer(r, "Access denied. Admin privileges required.", 0)
          ELSE [r EXCEPT !.pc = "fetchAllPolls"]]
    /\ UNCHANGED <<polls, votes, nextId, rateLimitStore, now, limit, log, admitted>>

\* fetchAllPolls: .from("polls").select("*") answers and the records, owner
\* ids included, are displayed
FetchAllPolls(s) ==
    LET r == req[s] IN
    /\ r.op = "AdminPage" /\ r.pc = "fetchAllPolls"
    /\ req' = [req EXCEPT ![s] = Answer([r EXCEPT !.listed = polls], Null, 0)]
    /\ UNCHANGED <<polls, votes, nextId, rateLimitStore, now, limit, log, admitted>>

(***************************************************************************)
(* SpecAdmin: visitors open the admin panel, signed in or not, with every  *)
(* pairing of email address and role attribute; the store holds a poll of  *)
(* each user.                                                              *)
(***************************************************************************)
Emails == {AdminEmail, "user@example.com"}
Roles == {"admin", "user"}

PollTwo == [id |-> 2, user_id |-> "u2", question |-> Str(0, "q", 1, 0),
            options |-> TwoOptions, created_at |-> 0]

InitAdmin ==
    /\ polls = {PollOne, PollTwo}
    /\ votes = <<>>
    /\ nextId = 3
    /\ rateLimitStore = EmptyStore
    /\ now = 1
    /\ limit = [maxRequests |-> VoteLimit, windowMs |-> VoteWindowMs]
    /\ req = [s \in Slots |-> Idle]
    /\ log = <<>>
    /\ admitted = NoneAdmitted

NextAdmin ==
    \/ \E s \in Slots : AdminPageBegin(s, Null, Null, Null)
    \/ \E s \in Slots, actor \in Users, email \in Emails, role \in Roles :
            AdminPageBegin(s, actor, email, role)
    \/ \E s \in Slots : FetchAllPolls(s)

SpecAdmin == InitAdmin /\ [][NextAdmin]_vars

\* C16: fetchAllPolls is executed, and poll records are displayed, only for
\* an actor who is authenticated and whose role attribute marks them
\* administrator.
C16_ListingOnlyForAdministrators ==
    \A s \in Slots :
        (req[s].op = "AdminPage" /\ (req[s].pc = "fetchAllPolls" \/ req[s].listed # {}))
        => (req[s].actor # Null /\ req[s].role = "admin")

\* handleDelete(pollId), from the Delete button of a displayed poll: it
\* awaits deletePoll(pollId), which runs with the panel's session
HandleDeleteBegin(s, pollId) ==
    LET r == req[s] IN
    /\ r.op = "AdminPage" /\ r.pc = "done" /\ r.error = Null
    /\ \E p \in r.listed : p.id = pollId
    /\ req' = [req EXCEPT ![s] = [r EXCEPT !.pc = "deletePoll", !.id = pollId]]
    /\ UNCHANGED <<polls, votes, nextId, rateLimitStore, now, limit, log, admitted>>

\* deletePoll's scoped delete answers (no row matched is no error), and with
\* `!result.error` handleDelete takes the poll off the displayed list
HandleDeleteWrite(s) ==
    LET r == req[s] IN
    /\ r.op = "AdminPage" /\ r.pc = "deletePoll"
    /\ polls' = DeleteRows(polls, r.id, r.actor)
    /\ votes' = CascadeVotes(votes, polls')
    /\ req' = [req EXCEPT ![s] =
          Answer(Revalidate([r EXCEPT !.rows = Cardinality(Matching(polls, r.id, r.actor)),
                                      !.listed = {p \in r.listed : p.id # r.id}],
                            {ListPath}),
                 Null, 0)]
    /\ UNCHANGED <<nextId, rateLimitStore, now, limit, log, admitted>>

(***************************************************************************)
(* SpecAdminDelete: as SpecAdmin, and an administrator's panel deletes     *)
(* polls it displays.                                                      *)
(***************************************************************************)
NextAdminDelete ==
    \/ \E s \in Slots : AdminPageBegin(s, Null, Null, Null)
    \/ \E s \in Slots, actor \in Users, email \in Emails, role \in Roles :
            AdminPageBegin(s, actor, email, role)
    \/ \E s \in Slots : FetchAllPolls(s)
    \/ \E s \in Slots, pollId \in PollIds : HandleDeleteBegin(s, pollId)
    \/ \E s \in Slots : HandleDeleteWrite(s)

SpecAdminDelete == InitAdmin /\ [][NextAdminDelete]_vars

\* C30: the admin panel's displayed list stays consistent with the store:
\* handleDelete takes a poll off the list only if the poll was removed from
\* the polls table, so after any sequence of admin deletes the list of a panel
\* that has loaded omits no poll that still exists, whoever owns it.
C30_ListOmitsNoExistingPoll ==
    \A s \in Slots :
        (req[s].op = "AdminPage" /\ req[s].error = Null
            /\ (req[s].pc = "deletePoll" \/ req[s].pc = "done"))
        => \A p \in polls : p \in req[s].listed

(***************************************************************************)
(* SpecVoteInputs: vote submissions one after the other through both entry *)
(* points, by a signed-in voter and by anonymous callers, on the existing  *)
(* poll 1 (two options) and on the poll id 2 that was never given out,     *)
(* with every kind of optionIndex a client can send.                       *)
(***************************************************************************)
RawIndexInputs ==
    {Num(-1), Num(0), Num(1), Num(2), NotANumber, Prefixed(1), Missing}

InputVoters == {"u1", Null}

InitVoteInputs ==
    /\ polls = {PollOne}
    /\ votes = <<>>
    /\ nextId = 2
    /\ rateLimitStore = EmptyStore
    /\ now = 1
    /\ limit = [maxRequests |-> VoteLimit, windowMs |-> VoteWindowMs]
    /\ req = [s \in Slots |-> Idle]
    /\ log = <<>>
    /\ admitted = NoneAdmitted

NextVoteInputs ==
    \/ \E actor \in InputVoters, id \in PollIds, raw \in RawIndexInputs :
            Len(votes) < MaxVotes /\ VoteActionBegin(1, actor, "ip1", id, raw)
    \/ \E actor \in InputVoters, id \in PollIds, raw \in RawIndexInputs :
            Len(votes) < MaxVotes /\ VoteRouteBegin(1, actor, id, raw)
    \/ VoteFetch(1)
    \/ VoteCheck(1)
    \/ VoteInsert(1)
    \/ Retire(1)

SpecVoteInputs == InitVoteInputs /\ [][NextVoteInputs]_vars

InvalidIndexErrors == {"Invalid poll ID or option index.", "Invalid option selected."}

\* the optionIndex sent is not an index of the poll: not a number, negative,
\* or, when the poll exists, at or past its option count
NotAnIndexOf(raw, id) ==
    \/ raw.t # "num"
    \/ raw.v < 0
    \/ PollExists(polls, id) /\ raw.v >= Len(PollById(polls, id).options)

\* C17: a vote submission (not turned away by the vote rate limit, which is
\* C21's matter) whose option index is negative, not a number, or >= the
\* poll's option count returns an invalid-index error; one with a well-formed
\* index on a poll id that does not exist returns the not-found error; in both
\* cases no vote row is inserted, for authenticated and anonymous callers
\* alike.
C17_BadVotesRejected ==
    \A s \in Slots :
        LET r == req[s] IN
        ( /\ r.op \in {"voteOnPoll", "POST vote"} /\ r.pc = "done"
          /\ r.error # "Too many requests" )
        => /\ NotAnIndexOf(r.body, r.id) => (r.error \in InvalidIndexErrors /\ r.rows = 0)
           /\ (~NotAnIndexOf(r.body, r.id) /\ ~PollExists(polls, r.id))
                 => (r.error = "Poll not found." /\ r.rows = 0)

\* C18: POST /polls/{id}/vote answers 409 whenever the authenticated caller
\* already has a vote on that poll: when its prior-vote check finds the row,
\* and when only the unique index finds it at insert time because a
\* concurrent vote of the same voter was stored after the check.
C18_DuplicateVoteIs409 ==
    \A s \in Slots :
        LET r == req[s] IN
        ( /\ r.op = "POST vote" /\ r.pc = "done"
          /\ r.actor # Null
          /\ r.stage \in {"check", "insert"}
          /\ r.rows = 0 )
        => r.status = 409

\* the answers the claim allows a voteOnPoll call: success, a missing poll, an
\* invalid option index, or an existing vote of the same authenticated voter
VoteAnswers ==
    {Null, "Poll not found.", "You have already voted on this poll."} \cup InvalidIndexErrors

\* C21: voting is not rate limited: however many vote requests came earlier
\* from the same client address, voteOnPoll rejects a request only for a
\* missing poll, an invalid option index, or an existing vote by the same
\* authenticated voter.
C21_VotingNotRateLimited ==
    \A s \in Slots :
        (req[s].op = "voteOnPoll" /\ req[s].pc = "done") => req[s].error \in VoteAnswers

\* C22, the steps: an anonymous vote submission on an existing poll with an
\* in-range option index goes from the poll fetch straight to the insert, and
\* its insert stores exactly one new row [poll, null, index], returns success
\* and adds one to the poll's tally.
C22_Steps ==
    \A s \in Slots :
        LET r == req[s] IN
        (r.op \in {"voteOnPoll", "POST vote"} /\ r.actor = Null /\ Stepped(s))
        => /\ ( /\ r.pc = "fetch"
                /\ PollExists(polls, r.id)
                /\ r.index >= 0
                /\ r.index < Len(PollById(polls, r.id).options) )
              => req'[s].pc = "insert"
           /\ r.pc = "insert"
              => /\ votes' = Append(votes, [poll_id |-> r.id, user_id |-> Null,
                                            option_index |-> r.index])
                 /\ req'[s].pc = "done" /\ req'[s].error = Null
                 /\ Sum(GetPollResults(polls', votes', r.id))
                       = Sum(GetPollResults(polls, votes, r.id)) + 1

\* C22, the answers: no anonymous submission runs the prior-vote check or is
\* told it has voted already.
C22_NoCheck ==
    \A s \in Slots :
        (req[s].op \in {"voteOnPoll", "POST vote"} /\ req[s].actor = Null)
        => /\ req[s].pc # "check"
           /\ req[s].stage # "check"
           /\ req[s].error # "You have already voted on this poll."

\* C22: anonymous voting has no de-duplication: every anonymous vote
\* submission on an existing poll with an in-range option index skips the
\* prior-vote check and inserts one new vote row with user_id = null, so n
\* such admitted submissions on the same poll add exactly n vote rows and n to
\* the tally.
C22_AnonymousNotDeduplicated == []C22_NoCheck /\ [][C22_Steps]_vars

\* C22 witness: three anonymous submissions for the same option of the same
\* poll are stored as three rows, and the tally counts three.
C22_Witness ==
    /\ Len(votes) = 3
    /\ \A j \in DOMAIN votes : votes[j] = [poll_id |-> 1, user_id |-> Null, option_index |-> 0]
    /\ GetPollResults(polls, votes, 1) = <<3, 0>>
    /\ \E s \in Slots : req[s].actor = Null /\ req[s].pc = "done" /\ req[s].stage = "insert"

(***************************************************************************)
(* SpecShorten: vote submissions on a poll of three options (slot 1, one   *)
(* after the other, through both entry points) while the poll's owner      *)
(* runs updatePoll calls that shorten it to two options or restore the     *)
(* three (slot 2), interleaved at their awaits.                            *)
(***************************************************************************)
InitShorten ==
    /\ polls = {PollThree}
    /\ votes = <<>>
    /\ nextId = 2
    /\ rateLimitStore = EmptyStore
    /\ now = 1
    /\ limit = [maxRequests |-> VoteLimit, windowMs |-> VoteWindowMs]
    /\ req = [s \in Slots |-> Idle]
    /\ log = <<>>
    /\ admitted = NoneAdmitted

NextShorten ==
    \/ \E actor \in InputVoters, raw \in ResultIndexInputs :
            Len(votes) < MaxVotes /\ VoteActionBegin(1, actor, "ip1", 1, raw)
    \/ \E actor \in InputVoters, raw \in ResultIndexInputs :
            Len(votes) < MaxVotes /\ VoteRouteBegin(1, actor, 1, raw)
    \/ VoteFetch(1)
    \/ VoteCheck(1)
    \/ VoteInsert(1)
    \/ Retire(1)
    \/ \E body \in ResultBodies : UpdateActionBegin(2, "u1", 1, body)
    \/ UpdateActionFetch(2)
    \/ UpdateActionWrite(2)
    \/ Retire(2)

SpecShorten == InitShorten /\ [][NextShorten]_vars

\* C23: every vote row inserted by a vote submission has an option_index with
\* 0 <= option_index < the number of options its poll has at the moment the
\* row is inserted, also when the owner's updatePoll shortened the option
\* list between the submission's poll fetch and its insert.
C23_InsertedIndexInRange ==
    [][Len(votes') = Len(votes) + 1
          => LET row == votes'[Len(votes')] IN
             /\ PollExists(polls, row.poll_id)
             /\ row.option_index >= 0
             /\ row.option_index < Len(PollById(polls, row.poll_id).options)]_vars

(***************************************************************************)
(* SpecStages: create, update, delete and vote requests, one after the     *)
(* other, through the server actions and the HTTP API, by the owner of     *)
(* poll 1, by another user and by anonymous callers, so that every way out *)
(* of every handler is taken; the votes are on poll 1, which its owner may *)
(* have deleted.                                                           *)
(***************************************************************************)
\* the limiter as earlier create requests of this hour may have left it:
\* untouched, or one request short of the limit for both create keys of u1
StagesInitStores ==
    {EmptyStore,
     [k \in {CreateKey("unknown"), CreateKey("u1")} |->
         [count |-> CreateLimit - 1, resetTime |-> CreateWindowMs]]}

InitStages ==
    /\ polls = {PollOne}
    /\ votes = <<>>
    /\ nextId = 2
    /\ rateLimitStore \in StagesInitStores
    /\ now = 1
    /\ limit = [maxRequests |-> CreateLimit, windowMs |-> CreateWindowMs]
    /\ req = [s \in Slots |-> Idle]
    /\ log = <<>>
    /\ admitted = NoneAdmitted

NextStages ==
    \/ \E actor \in Creators, body \in Bodies :
            admitted["u1"] < MaxCreates /\ CreateActionBegin(1, actor, NoHeaders, body)
    \/ \E actor \in Creators, body \in Bodies :
            admitted["u1"] < MaxCreates /\ CreateRouteBegin(1, actor, body)
    \/ CreateInsert(1)
    \/ \E actor \in Actors, id \in PollIds, body \in Bodies : UpdateActionBegin(1, actor, id, body)
    \/ UpdateActionFetch(1)
    \/ UpdateActionWrite(1)
    \/ \E actor \in Actors, id \in PollIds, body \in Bodies : UpdateRouteBegin(1, actor, id, body)
    \/ UpdateRouteWrite(1)
    \/ \E op \in {"deletePoll", "DELETE"}, actor \in Actors, id \in PollIds :
            DeleteBegin(1, op, actor, id)
    \/ DeleteWrite(1)
    \/ \E actor \in InputVoters, raw \in IndexInputs :
            Len(votes) < MaxVotes /\ VoteActionBegin(1, actor, "ip1", 1, raw)
    \/ \E actor \in InputVoters, raw \in IndexInputs :
            Len(votes) < MaxVotes /\ VoteRouteBegin(1, actor, 1, raw)
    \/ VoteFetch(1)
    \/ VoteCheck(1)
    \/ VoteInsert(1)
    \/ Retire(1)

SpecStages == InitStages /\ [][NextStages]_vars

MutatingOps ==
    {"createPoll", "POST", "updatePoll", "PUT", "deletePoll", "DELETE", "voteOnPoll", "POST vote"}

\* the awaits on a store write: the persist stage
WriteStages == {"insert", "update", "delete"}

\* C25, the steps: a step of a create, update, delete or vote request that is
\* not the answer of its store write changes neither table and revalidates no
\* path; a step that revalidates a path is the answer of a store write that
\* returned without error.
C25_Steps ==
    \A s \in Slots :
        (Stepped(s) /\ req'[s].op \in MutatingOps)
        => /\ req[s].pc \notin WriteStages
              => (polls' = polls /\ votes' = votes /\ req'[s].revalidated = {})
           /\ req'[s].revalidated # req[s].revalidated
              => (req[s].pc \in WriteStages /\ req'[s].error = Null)

\* C25, the answers: a request that ended before its store write wrote no row
\* and revalidated no path.
C25_Answers ==
    \A s \in Slots :
        (req[s].op \in MutatingOps /\ req[s].pc = "done" /\ req[s].stage \notin WriteStages)
        => (req[s].error # Null /\ req[s].rows = 0 /\ req[s].revalidated = {})

\* C25: a createPoll, updatePoll, deletePoll or vote request that ends at the
\* authenticate, rate-limit, authorize or validate stage leaves the polls
\* table and the votes table unchanged and performs no cache invalidation
\* (revalidatePath); cache invalidation happens only after the store write
\* returned without error.
C25_EarlyExitsHaveNoEffect == []C25_Answers /\ [][C25_Steps]_vars

\* C25 witness: with a created poll and a vote in the tables, a createPoll
\* call was turned away by the rate limit and has revalidated nothing.
C25_Witness ==
    \E s \in Slots :
        /\ req[s].op = "createPoll" /\ req[s].pc = "done"
        /\ req[s].error = "Too many polls created. Please try again later."
        /\ req[s].revalidated = {}
        /\ Cardinality(polls) = 2
        /\ Len(votes) >= 1

(***************************************************************************)
(* SpecOwner: create, update and delete requests of two users, one after   *)
(* the other, through the server actions and the HTTP API, whose bodies    *)
(* carry a user_id field of the client's choosing next to the question and *)
(* the options; the clock moves between the requests.                      *)
(***************************************************************************)
OwnerBody(q, u) ==
    [question |-> Str(0, q, 1, 0), options |-> TwoOptions, user_id |-> u]

OwnerBodies == {OwnerBody("r", "u2"), OwnerBody("s", "u1")}

InitOwner ==
    /\ polls = {}
    /\ votes = <<>>
    /\ nextId = 1
    /\ rateLimitStore = EmptyStore
    /\ now = 1
    /\ limit = [maxRequests |-> CreateLimit, windowMs |-> CreateWindowMs]
    /\ req = [s \in Slots |-> Idle]
    /\ log = <<>>
    /\ admitted = NoneAdmitted

NextOwner ==
    \/ \E actor \in Users, body \in OwnerBodies :
            /\ nextId \in PollIds
            /\ CreateActionBegin(1, actor, NoHeaders, body)
    \/ \E actor \in Users, body \in OwnerBodies :
            /\ nextId \in PollIds
            /\ CreateRouteBegin(1, actor, body)
    \/ CreateInsert(1)
    \/ \E actor \in Users, id \in PollIds, body \in OwnerBodies :
            UpdateActionBegin(1, actor, id, body)
    \/ UpdateActionFetch(1)
    \/ UpdateActionWrite(1)
    \/ \E actor \in Users, id \in PollIds, body \in OwnerBodies :
            UpdateRouteBegin(1, actor, id, body)
    \/ UpdateRouteWrite(1)
    \/ \E op \in {"deletePoll", "DELETE"}, actor \in Users, id \in PollIds :
            DeleteBegin(1, op, actor, id)
    \/ DeleteWrite(1)
    \/ Retire(1)
    \/ req[1] = Idle /\ Tick

SpecOwner == InitOwner /\ [][NextOwner]_vars

\* the ids of the rows of a polls table
IdsOf(table) == {p.id : p \in table}

\* C26, creation: a row that appears in polls was inserted by a create request
\* and its user_id is that request's session user, whatever the body said.
C26_Created ==
    \A p \in polls' :
        p.id \notin IdsOf(polls)
        => \E s \in Slots :
              /\ Stepped(s)
              /\ req[s].op \in {"createPoll", "POST"}
              /\ req[s].actor \in Users
              /\ p.user_id = req[s].actor

\* C26, afterwards: no step changes the user_id or the created_at of a row.
C26_Kept ==
    \A p \in polls, q \in polls' :
        q.id = p.id => (q.user_id = p.user_id /\ q.created_at = p.created_at)

\* C26, the update: a step of an updatePoll or PUT request changes at most
\* the question and the options of the rows with its poll id, and no other row.
C26_UpdateFrame ==
    \A s \in Slots :
        (Stepped(s) /\ req[s].op \in {"updatePoll", "PUT"})
        => /\ IdsOf(polls') = IdsOf(polls)
           /\ Cardinality(polls') = Cardinality(polls)
           /\ \A p \in polls :
                 /\ p.id # req[s].id => p \in polls'
                 /\ \E q \in polls' :
                       [q EXCEPT !.question = p.question, !.options = p.options] = p

\* C26: every stored poll's owner (user_id) is the identity of the
\* authenticated session that created it, never a client-supplied value, and
\* no operation changes it afterwards: updatePoll writes only question and
\* options and leaves the poll's id, user_id and created_at, and every other
\* poll, unchanged.
C26_OwnerImmutable == [][C26_Created /\ C26_Kept /\ C26_UpdateFrame]_vars

\* C26 witness: the store holds a poll of each user; one of them was just
\* rewritten by its owner with a body that names the other user as user_id,
\* some time after it was created, and is still its owner's.
C26_Witness ==
    \E s \in Slots :
        /\ req[s].op \in {"updatePoll", "PUT"} /\ req[s].pc = "done" /\ req[s].rows = 1
        /\ req[s].sent.user_id # req[s].actor
        /\ \E p \in polls :
              /\ p.id = req[s].id
              /\ p.user_id = req[s].actor
              /\ p.question = req[s].sent.question
              /\ p.created_at < now
        /\ \E p \in polls : p.user_id # req[s].actor

(***************************************************************************)
(* auth-actions.ts: login and register.                                    *)
(*                                                                         *)
(* An email address is a sequence of runs [c, n]: the character class c    *)
(* ("x" an ordinary character, "@", "." or " ") repeated n >= 1 times.  A  *)
(* password is the number of its uppercase letters, lowercase letters,     *)
(* digits and other characters.  The x-forwarded-for header is the list of *)
(* its comma-separated entries, and the empty list when it is absent.      *)
(***************************************************************************)
Run(c, n) == [c |-> c, n |-> n]

\* the length of the runs from..to of e
RECURSIVE RunsLen(_, _, _)
RunsLen(e, from, to) == IF from > to THEN 0 ELSE e[from].n + RunsLen(e, from + 1, to)

\* data.email.length
EmailLen(e) == RunsLen(e, 1, Len(e))

\* the test against a pattern that asks for an "@" only
EmailMatchesAtOnly(e) == \E a \in DOMAIN e : e[a].c = "@"

\* /^[^\s@]+@[^\s@]+\.[^\s@]+$/.test(email): no blank, one "@" with something
\* before it, and after it a "." with something on both sides
EmailMatches(e) ==
    /\ \A i \in DOMAIN e : e[i].c # " "
    /\ \E a \in DOMAIN e :
          /\ e[a].c = "@" /\ e[a].n = 1
          /\ \A i \in DOMAIN e : e[i].c = "@" => i = a
          /\ RunsLen(e, 1, a - 1) >= 1
          /\ \E j \in (a + 1)..Len(e) :
                /\ e[j].c = "."
                /\ \E k \in 0..(e[j].n - 1) :
                      /\ RunsLen(e, a + 1, j - 1) + k >= 1
                      /\ (e[j].n - 1 - k) + RunsLen(e, j + 1, Len(e)) >= 1

Password(upper, lower, digit, other) ==
    [upper |-> upper, lower |-> lower, digit |-> digit, other |-> other]

\* data.password.length
PasswordLen(pw) == pw.upper + pw.lower + pw.digit + pw.other

\* the strength test without the digit
StrongNoDigit(pw) == pw.upper > 0 /\ pw.lower > 0

\* /[A-Z]/.test(pw) && /[a-z]/.test(pw) && /\d/.test(pw)
Strong(pw) == pw.upper > 0 /\ pw.lower > 0 /\ pw.digit > 0

\* headersList.get('x-forwarded-for') || headersList.get('x-real-ip') || 'unknown':
\* the header value as it is, every entry of it
ClientIP(headers) ==
    IF headers.xff # <<>> /\ headers.xff # <<"">> THEN headers.xff
    ELSE IF headers.xri # Null /\ headers.xri # "" THEN <<headers.xri>>
    ELSE <<"unknown">>

LoginLimit == 5
LoginWindowMs == 300000
RegisterLimit == 3
RegisterWindowMs == 300000

\* the keys `login:${clientIP}` and `register:${clientIP}`
LoginKey(ip) == <<"login", ip>>
RegisterKey(ip) == <<"register", ip>>

\* login's checks on its fields: the error, or null
LoginFieldsError(data) ==
    IF EmailLen(data.email) = 0 \/ PasswordLen(data.password) = 0
    THEN "Email and password are required."
    ELSE IF EmailLen(data.email) > 254 THEN "Email is too long."
    ELSE IF PasswordLen(data.password) < 6 THEN "Password must be at least 6 characters."
    ELSE IF ~EmailMatches(data.email) THEN "Please enter a valid email address."
    ELSE Null

\* register's checks on its fields: the error, or null
RegisterFieldsError(data) ==
    IF StrLen(data.name) = 0 \/ EmailLen(data.email) = 0 \/ PasswordLen(data.password) = 0
    THEN "Name, email, and password are required."
    ELSE IF StrLen(Trim(data.name)) < 2 \/ StrLen(Trim(data.name)) > 100
    THEN "Name must be between 2 and 100 characters."
    ELSE IF EmailLen(data.email) > 254 THEN "Email is too long."
    ELSE IF PasswordLen(data.password) < 8 THEN "Password must be at least 8 characters."
    ELSE IF PasswordLen(data.password) > 128 THEN "Password is too long."
    ELSE IF ~EmailMatches(data.email) THEN "Please enter a valid email address."
    ELSE IF ~Strong(data.password)
    THEN "Password must contain at least one uppercase letter, one lowercase letter, and one number."
    ELSE Null

TooManyLogins == "Too many login attempts. Please try again later."

\* history, kept per rate-limit key: the time of the first call of the window
\* the key is in, the calls made since, and whether a call of the key was
\* ever turned away.  A call later than start + windowMs opens the next
\* window; a call made exactly at start + windowMs counts as the limiter took
\* it (fresh: it opened a window).
Seen(h, key, t, windowMs, fresh, allowed) ==
    LET turned == ~allowed \/ (key \in DOMAIN h /\ h[key].turned) IN
    IF key \notin DOMAIN h \/ t > h[key].start + windowMs
       \/ (t = h[key].start + windowMs /\ fresh)
    THEN StoreSet(h, key, [start |-> t, calls |-> 1, turned |-> turned])
    ELSE StoreSet(h, key, [h[key] EXCEPT !.calls = @ + 1, !.turned = turned])

\* login with the checks on the fields made before the rate limit: a call
\* with bad fields is answered by the checks and never reaches the limiter
LoginBeginFieldsFirst(s, headers, data) ==
    LET ip == ClientIP(headers)
        r == [Idle EXCEPT !.op = "login", !.pc = "start", !.ip = ip, !.body = data]
        rate == RateLimit(rateLimitStore, LoginKey(ip), LoginLimit, LoginWindowMs, now)
    IN
    /\ req[s] = Idle
    /\ \A t \in Slots : t < s => req[t] # Idle
    /\ IF LoginFieldsError(data) # Null
       THEN /\ req' = [req EXCEPT ![s] = Answer(r, LoginFieldsError(data), 0)]
            /\ UNCHANGED <<rateLimitStore, log>>
       ELSE /\ rateLimitStore' = rate.store
            /\ log' = Seen(log, LoginKey(ip), now, LoginWindowMs,
                           rate.allowed /\ rate.resetTime = now + LoginWindowMs, rate.allowed)
            /\ req' = [req EXCEPT ![s] =
                  IF ~rate.allowed THEN Answer(r, TooManyLogins, 0)
                  ELSE [r EXCEPT !.pc = "signInWithPassword"]]
    /\ UNCHANGED <<polls, votes, nextId, now, limit, admitted>>

\* a login call arrives and runs to its await on the identity provider: the
\* rate limit keyed by the client address of the headers, then the checks on
\* the fields
LoginBegin(s, headers, data) ==
    LET ip == ClientIP(headers)
        r == [Idle EXCEPT !.op = "login", !.pc = "start", !.ip = ip, !.body = data]
        rate == RateLimit(rateLimitStore, LoginKey(ip), LoginLimit, LoginWindowMs, now)
    IN
    /\ req[s] = Idle
    /\ \A t \in Slots : t < s => req[t] # Idle
    /\ rateLimitStore' = rate.store
    /\ log' = Seen(log, LoginKey(ip), now, LoginWindowMs,
                   rate.allowed /\ rate.resetTime = now + LoginWindowMs, rate.allowed)
    /\ req' = [req EXCEPT ![s] =
          IF ~rate.allowed THEN Answer(r, TooManyLogins, 0)
          ELSE IF LoginFieldsError(data) # Null THEN Answer(r, LoginFieldsError(data), 0)
          ELSE [r EXCEPT !.pc = "signInWithPassword"]]
    /\ UNCHANGED <<polls, votes, nextId, now, limit, admitted>>

\* supabase.auth.signInWithPassword answers: the provider's error, or none
SignInWithPassword(s, error) ==
    LET r == req[s] IN
    /\ r.op = "login" /\ r.pc = "signInWithPassword"
    /\ req' = [req EXCEPT ![s] = Answer(r, error, 0)]
    /\ UNCHANGED <<polls, votes, nextId, rateLimitStore, now, limit, log, admitted>>

(***************************************************************************)
(* SpecLogin: login calls one after the other, with an x-forwarded-for of   *)
(* one entry or of two, with good and bad credentials, at times around the *)
(* ends of the five-minute windows.                                        *)
(***************************************************************************)
MaxLoginCalls == 6   \* login calls per address and window

LoginHeaders ==
    {[xff |-> <<"ip1">>, xri |-> Null],
     [xff |-> <<"ip1", "proxy1">>, xri |-> "ip2"]}

GoodEmail == <<Run("x", 1), Run("@", 1), Run("x", 1), Run(".", 1), Run("x", 2)>>

LoginInputs ==
    {[email |-> GoodEmail, password |-> Password(0, 6, 0, 0)],
     [email |-> GoodEmail, password |-> Password(0, 5, 0, 0)],
     [email |-> <<Run("x", 3)>>, password |-> Password(1, 6, 1, 0)]}

ProviderErrors == {Null, "Invalid login credentials"}

\* the moments at which something happens: around the start, and around the
\* resets of the windows opened at 1 and at 2
LoginTimes ==
    {1, 2, LoginWindowMs, LoginWindowMs + 1, LoginWindowMs + 2, 2 * LoginWindowMs + 3}

\* time passes
Elapse(t) ==
    /\ t > now
    /\ now' = t
    /\ UNCHANGED <<polls, votes, nextId, rateLimitStore, limit, req, log, admitted>>

InitLogin ==
    /\ polls = {}
    /\ votes = <<>>
    /\ nextId = 1
    /\ rateLimitStore = EmptyStore
    /\ now = 1
    /\ limit = [maxRequests |-> LoginLimit, windowMs |-> LoginWindowMs]
    /\ req = [s \in Slots |-> Idle]
    /\ log = EmptyStore
    /\ admitted = NoneAdmitted

\* the calls the history holds for the window a key is in at time t
CallsInWindow(h, key, t, windowMs) ==
    IF key \in DOMAIN h /\ t <= h[key].start + windowMs THEN h[key].calls ELSE 0

NextLogin ==
    \/ \E headers \in LoginHeaders, data \in LoginInputs :
            /\ CallsInWindow(log, LoginKey(ClientIP(headers)), now, LoginWindowMs) < MaxLoginCalls
            /\ LoginBegin(1, headers, data)
    \/ \E error \in ProviderErrors : SignInWithPassword(1, error)
    \/ Retire(1)
    \/ \E t \in LoginTimes : Elapse(t)

SpecLogin == InitLogin /\ [][NextLogin]_vars

TooManyRegistrations == "Too many registration attempts. Please try again later."

\* a register call arrives and runs to its await on the identity provider:
\* the rate limit keyed by the client address of the headers, then the checks
\* on the fields
RegisterBegin(s, headers, data) ==
    LET ip == ClientIP(headers)
        r == [Idle EXCEPT !.op = "register", !.pc = "start", !.ip = ip, !.body = data]
        rate == RateLimit(rateLimitStore, RegisterKey(ip), RegisterLimit, RegisterWindowMs, now)
    IN
    /\ req[s] = Idle
    /\ \A t \in Slots : t < s => req[t] # Idle
    /\ rateLimitStore' = rate.store
    /\ req' = [req EXCEPT ![s] =
          IF ~rate.allowed THEN Answer(r, TooManyRegistrations, 0)
          ELSE IF RegisterFieldsError(data) # Null THEN Answer(r, RegisterFieldsError(data), 0)
          ELSE [r EXCEPT !.pc = "signUp"]]
    /\ UNCHANGED <<polls, votes, nextId, now, limit, log, admitted>>

\* supabase.auth.signUp answers: the provider's error, or none
SignUp(s, error) ==
    LET r == req[s] IN
    /\ r.op = "register" /\ r.pc = "signUp"
    /\ req' = [req EXCEPT ![s] = Answer(r, error, 0)]
    /\ UNCHANGED <<polls, votes, nextId, rateLimitStore, now, limit, log, admitted>>

(***************************************************************************)
(* SpecRegister: register calls one after the other, inside one rate-limit *)
(* window, with names, email addresses and passwords on both sides of      *)
(* every check.                                                            *)
(***************************************************************************)
RegisterNames ==
    {Str(0, "", 0, 0), Str(1, "", 0, 1), Str(0, "n", 1, 0), Str(1, "n", 2, 1),
     Str(1, "n", 100, 1), Str(0, "n", 101, 0)}

\* local@domain.tld of 254 characters, and of 255
Email254 == <<Run("x", 248), Run("@", 1), Run("x", 2), Run(".", 1), Run("x", 2)>>
Email255 == <<Run("x", 249), Run("@", 1), Run("x", 2), Run(".", 1), Run("x", 2)>>

\* local@sub.domain.tld
EmailSubdomain ==
    <<Run("x", 1), Run("@", 1), Run("x", 1), Run(".", 1), Run("x", 1), Run(".", 1), Run("x", 2)>>

\* the addresses that have the shape local@domain.tld
ShapedEmails == {GoodEmail, Email254, Email255, EmailSubdomain}

RegisterEmails ==
    ShapedEmails \cup
    {<<>>,
     <<Run("x", 3), Run(".", 1), Run("x", 2)>>,                                  \* no "@"
     <<Run("x", 1), Run("@", 1), Run("x", 3)>>,                                  \* no "."
     <<Run("x", 1), Run(" ", 1), Run("x", 1), Run("@", 1), Run("x", 1), Run(".", 1), Run("x", 2)>>,
     <<Run("x", 1), Run("@", 1), Run("x", 1), Run("@", 1), Run("x", 1), Run(".", 1), Run("x", 2)>>,
     <<Run("@", 1), Run("x", 1), Run(".", 1), Run("x", 2)>>,                     \* no local part
     <<Run("x", 1), Run("@", 1), Run(".", 1), Run("x", 2)>>,                     \* no domain
     <<Run("x", 1), Run("@", 1), Run("x", 1), Run(".", 1)>>}                     \* no tld

RegisterPasswords ==
    {Password(0, 0, 0, 0),
     Password(1, 6, 1, 0), Password(1, 5, 1, 0),
     Password(1, 126, 1, 0), Password(1, 127, 1, 0),
     Password(0, 7, 1, 0), Password(7, 0, 1, 0), Password(1, 7, 0, 0),
     Password(1, 6, 0, 1), Password(1, 1, 1, 5)}

RegisterInputs == [name : RegisterNames, email : RegisterEmails, password : RegisterPasswords]

ProviderSignUpErrors == {Null, "User already registered"}

InitRegister ==
    /\ polls = {}
    /\ votes = <<>>
    /\ nextId = 1
    /\ rateLimitStore = EmptyStore
    /\ now = 1
    /\ limit = [maxRequests |-> RegisterLimit, windowMs |-> RegisterWindowMs]
    /\ req = [s \in Slots |-> Idle]
    /\ log = <<>>
    /\ admitted = NoneAdmitted

NextRegister ==
    \/ \E headers \in LoginHeaders, data \in RegisterInputs : RegisterBegin(1, headers, data)
    \/ \E error \in ProviderSignUpErrors : SignUp(1, error)
    \/ Retire(1)

SpecRegister == InitRegister /\ [][NextRegister]_vars

\* a trimmed name of 2 to 100 characters, an email address of at most 254
\* characters with the shape local@domain.tld, and a password of 8 to 128
\* characters with an uppercase letter, a lowercase letter and a digit
ValidRegistration(data) ==
    /\ StrLen(Trim(data.name)) >= 2
    /\ StrLen(Trim(data.name)) <= 100
    /\ EmailLen(data.email) <= 254
    /\ data.email \in ShapedEmails
    /\ PasswordLen(data.password) >= 8
    /\ PasswordLen(data.password) <= 128
    /\ data.password.upper >= 1
    /\ data.password.lower >= 1
    /\ data.password.digit >= 1

RegisterValidationErrors ==
    {"Name, email, and password are required.",
     "Name must be between 2 and 100 characters.",
     "Email is too long.",
     "Password must be at least 8 characters.",
     "Password is too long.",
     "Please enter a valid email address.",
     "Password must contain at least one uppercase letter, one lowercase letter, and one number."}

\* signUp was called for the request
SignUpCalled(r) == r.pc = "signUp" \/ (r.pc = "done" /\ r.stage = "signUp")

\* C20: register (when the registration rate limit admits the call) calls the
\* identity provider's signUp only when the trimmed name has 2 to 100
\* characters, the email has at most 254 characters and the local@domain.tld
\* shape, and the password has 8 to 128 characters including at least one
\* uppercase letter, one lowercase letter and one digit; for every other input
\* it returns a validation error and signUp is not called.
C20_RegisterValidates ==
    \A s \in Slots :
        LET r == req[s] IN
        (r.op = "register" /\ r.error # TooManyRegistrations)
        => /\ SignUpCalled(r) <=> ValidRegistration(r.body)
           /\ ~ValidRegistration(r.body)
                 => (r.pc = "done" /\ r.error \in RegisterValidationErrors)

\* C20 witness: signUp is being called for a registration at the limits: a
\* name of 100 characters once trimmed, an email address of 254 characters and
\* a password of 128.
C20_Witness ==
    \E s \in Slots :
        /\ req[s].op = "register" /\ req[s].pc = "signUp"
        /\ StrLen(req[s].body.name) = 102
        /\ EmailLen(req[s].body.email) = 254
        /\ PasswordLen(req[s].body.password) = 128

=============================================================================
